---- MODULE Spec2Model ----
(***************************************************************************)
(* Orchestration core of WatchDogs-Security-City: the circuit breaker      *)
(* (utils/circuit_breaker.py), the LRU/TTL result cache                    *)
(* (utils/cache_utils.py), the per-agent executor (agents/*_agent.py) and  *)
(* the LangGraph fan-out/fan-in of agents/coordinator/.                    *)
(***************************************************************************)
EXTENDS Integers, Sequences, FiniteSets, TLC

VARIABLES
    now,        \* time.time(), in whole ticks
    breaker,    \* the CircuitBreaker instance SpecBreaker calls through
    bcall,      \* history: what the last call through the breaker did
    hist,       \* history: runs of consecutive admitted failures / successes
    threads,    \* SpecThreads: where each thread is inside CircuitBreaker.call
    thist,      \* history: the outcomes of the threads' calls so far
    _cache,     \* cache_utils._cache
    _cache_ttl, \* cache_utils._cache_ttl
    cop,        \* history: the last cache operation
    recency,    \* history: the cached keys, least recently used first
    stored,     \* history: key -> time and value of its last set_cached_result
    cthreads,   \* SpecCacheThreads: where each thread is inside get / set
    chist,      \* history: what the threads' cache calls did so far
    breakers,   \* agent kind -> that agent's self.breaker
    _agent_stats, \* metrics_utils._agent_stats: agent name -> its counters
    abandoned,  \* the worker thread a timed-out analyze left running, if any
    acall,      \* history: the last analyze call and what it returned
    streak,     \* history: per kind, the run of failed external calls so far
    aprev,      \* history: the call before it, if it had the same arguments,
                \* succeeded with one external call and is within the TTL
    ncalls,     \* history: the number of analyze calls made
    phase,      \* where CoordinatorAgent.analyze_frame is
    state,      \* the graph's AnalysisState
    tasks,      \* agent node -> whether it has finished, what it wrote, and
                \* history: the calls of analyze, cache lookups and external
                \* calls it made
    combined,   \* history: runs of the combine node, and the agent nodes
                \* that had not finished when it last ran
    report,     \* what analyze_frame returned
    mf          \* MultiFrameHandler.analyze_multi_frame: its locals, and
                \* history: the calls of the single-frame analyzer

threadVars == <<threads, thist>>
breakerVars == <<breaker, bcall, hist, threadVars>>
cacheVars == <<_cache, _cache_ttl>>
cthreadVars == <<cthreads, chist>>
cacheHist == <<cop, recency, stored, cthreadVars>>
agentVars == <<breakers, abandoned, acall, aprev, ncalls, streak, _agent_stats>>
graphVars == <<phase, state, tasks, combined, report, mf>>
vars == <<now, breakerVars, cacheVars, cacheHist, agentVars, graphVars>>

(***************************************************************************)
(* Bounds and configuration                                                *)
(***************************************************************************)
MaxTime == 7
AgentMaxTime == 3
MaxCalls == 2
ThreadMaxTime == 2
MaxThreadCalls == 3
MaxCacheCalls == 2
MaxFrames == 7
\* config.CIRCUIT_BREAKER_FAILURE_THRESHOLD / _RECOVERY_TIMEOUT, scaled down
CIRCUIT_BREAKER_FAILURE_THRESHOLD == 3
CIRCUIT_BREAKER_RECOVERY_TIMEOUT == 2
\* circuit_breaker.py:101 "Need 2 successes to close"
SuccessesToClose == 2
\* cache_utils.MAX_CACHE_SIZE (500) and config.CACHE_TTL_SECONDS (3600), scaled
MAX_CACHE_SIZE == 2
CACHE_TTL_SECONDS == 2

\* Python's None: in a slot that otherwise holds a string, a dict, a float
None == "None"
NoneDict == [none |-> TRUE]
NoTime == -1

\* What the wrapped function (the external capability) does on one invocation:
\* it returns text, raises a transient error, or raises a permanent one.
\* response.content is a string, or (NonStr) a list of content blocks.
NonStr == "[blocks]"
Texts == {"street", "no se detecto texto", NonStr}
IsStr(x) == x # NonStr
Exceptions == {"RateLimitError", "AuthenticationError", "TimeoutError", "ValueError"}
Returns == [ok : {TRUE}, text : Texts]
Raises == [ok : {FALSE}, exc : Exceptions]
ExtHang == [hang |-> TRUE]

(***************************************************************************)
(* utils/circuit_breaker.py                                                *)
(***************************************************************************)
CLOSED == "closed"
OPEN == "open"
HALF_OPEN == "half_open"

CircuitBreaker(failure_threshold, recovery_timeout) ==
    [failure_threshold |-> failure_threshold,
     recovery_timeout  |-> recovery_timeout,
     state             |-> CLOSED,
     failure_count     |-> 0,
     last_failure_time |-> NoTime,
     success_count     |-> 0]

_should_attempt_recovery(b, t) ==
    IF b.last_failure_time = NoTime
    THEN FALSE
    ELSE (t - b.last_failure_time) >= b.recovery_timeout

\* Variant: the first trial success closes the breaker
_on_success_first_closes(b) ==
    LET b1 == [b EXCEPT !.failure_count = 0] IN
    IF b1.state \in {HALF_OPEN, OPEN}
    THEN [b1 EXCEPT !.state = CLOSED, !.success_count = @ + 1]
    ELSE b1

\* Variant: a success leaves the failure counter as it is
_on_success_keeps_count(b) ==
    IF b.state = HALF_OPEN
    THEN LET b2 == [b EXCEPT !.success_count = @ + 1] IN
         IF b2.success_count >= SuccessesToClose
         THEN [b2 EXCEPT !.state = CLOSED]
         ELSE b2
    ELSE IF b.state = OPEN
    THEN [b EXCEPT !.state = CLOSED]
    ELSE b

_on_success(b) ==
    LET b1 == [b EXCEPT !.failure_count = 0] IN
    IF b1.state = HALF_OPEN
    THEN LET b2 == [b1 EXCEPT !.success_count = @ + 1] IN
         IF b2.success_count >= SuccessesToClose
         THEN [b2 EXCEPT !.state = CLOSED]
         ELSE b2
    ELSE IF b1.state = OPEN
    THEN [b1 EXCEPT !.state = CLOSED]
    ELSE b1

\* Variant: the threshold comparison is strict
_on_failure_strict(b, t) ==
    LET b1 == [b EXCEPT !.failure_count = @ + 1,
                        !.last_failure_time = t] IN
    IF b1.state = HALF_OPEN
    THEN [b1 EXCEPT !.state = OPEN]
    ELSE IF b1.failure_count > b1.failure_threshold
    THEN [b1 EXCEPT !.state = OPEN]
    ELSE b1

\* Variant: a failed trial reopens only at the threshold
_on_failure_threshold_only(b, t) ==
    LET b1 == [b EXCEPT !.failure_count = @ + 1,
                        !.last_failure_time = t] IN
    IF b1.failure_count >= b1.failure_threshold
    THEN [b1 EXCEPT !.state = OPEN]
    ELSE b1

_on_failure(b, t) ==
    LET b1 == [b EXCEPT !.failure_count = @ + 1,
                        !.last_failure_time = t] IN
    IF b1.state = HALF_OPEN
    THEN [b1 EXCEPT !.state = OPEN]
    ELSE IF b1.failure_count >= b1.failure_threshold
    THEN [b1 EXCEPT !.state = OPEN]
    ELSE b1

\* Variant: an attempt turned away counts as a failure of now
call_admit_rejection_dated(b, t) ==
    IF b.state = OPEN
    THEN IF _should_attempt_recovery(b, t)
         THEN [b |-> [b EXCEPT !.state = HALF_OPEN, !.success_count = 0],
               admitted |-> TRUE]
         ELSE [b |-> [b EXCEPT !.last_failure_time = t], admitted |-> FALSE]
    ELSE [b |-> b, admitted |-> TRUE]

\* The state check at the head of CircuitBreaker.call: the breaker after it
\* and whether the call goes on to the wrapped function.
call_admit(b, t) ==
    IF b.state = OPEN
    THEN IF _should_attempt_recovery(b, t)
         THEN [b |-> [b EXCEPT !.state = HALF_OPEN, !.success_count = 0],
               admitted |-> TRUE]
         ELSE [b |-> b, admitted |-> FALSE]
    ELSE [b |-> b, admitted |-> TRUE]

\* CircuitBreaker.call(func): f is what func does if it is invoked, either
\* [ok |-> TRUE, value |-> v] (it returns v) or [ok |-> FALSE, exc |-> e]
\* (it raises e). Result: the breaker afterwards, whether func was invoked,
\* and either the returned value (ret) or the raised exception (exc).
call_admitted(a, t, f) ==
    IF ~a.admitted
    THEN [b |-> a.b, invoked |-> FALSE, ret |-> NoneDict,
          exc |-> "CircuitBreakerOpenError"]
    ELSE IF f.ok
    THEN [b |-> _on_success(a.b), invoked |-> TRUE,
          ret |-> f.value, exc |-> None]
    ELSE [b |-> _on_failure(a.b, t), invoked |-> TRUE, ret |-> NoneDict,
          exc |-> f.exc]

call(b, t, f) == call_admitted(call_admit(b, t), t, f)

(***************************************************************************)
(* utils/cache_utils.py: _cache is an OrderedDict (a sequence of entries,  *)
(* oldest first), _cache_ttl a dict from key to expiry time                *)
(***************************************************************************)
\* hashlib.sha256(..).hexdigest()[:16], hashlib.md5(..).hexdigest()[:8]:
\* deterministic and (on the model's inputs) collision-free digests
sha256(s) == <<"sha256", s>>
md5(s) == <<"md5", s>>

\* An image is the base64 string cut at its commas: <<prefix, data>> for a
\* data URI, <<data>> for bare base64.
get_image_hash(image_base64) ==
    IF Len(image_base64) > 1
    THEN sha256(image_base64[2])
    ELSE sha256(image_base64[1])

get_cache_key(image_base64, agent_name, context) ==
    <<agent_name, get_image_hash(image_base64),
      IF context # "" THEN md5(context) ELSE <<"none", "">> >>

CacheKeys(c) == {c[i].k : i \in DOMAIN c}
CacheValue(c, key) == (CHOOSE i \in DOMAIN c : c[i].k = key)
CacheGet(c, key) == c[CacheValue(c, key)].v
CacheDel(c, key) == SelectSeq(c, LAMBDA e : e.k # key)
DictDel(d, key) == [x \in DOMAIN d \ {key} |-> d[x]]
DictSet(d, key, v) == [x \in DOMAIN d \cup {key} |-> IF x = key THEN v ELSE d[x]]

\* OrderedDict.move_to_end(key)
move_to_end(c, key) == Append(CacheDel(c, key), [k |-> key, v |-> CacheGet(c, key)])

\* OrderedDict.__setitem__: a present key keeps its place
CacheSet(c, key, v) ==
    IF key \in CacheKeys(c)
    THEN [i \in DOMAIN c |-> IF c[i].k = key THEN [k |-> key, v |-> v] ELSE c[i]]
    ELSE Append(c, [k |-> key, v |-> v])

\* Variant: an entry counts as expired from its expiry time on
is_expired_from_expiry(ttl, cache_key, t) ==
    cache_key \in DOMAIN ttl /\ t >= ttl[cache_key]

\* get_cached_result's TTL check:
\* `if cache_key in _cache_ttl: if time.time() > _cache_ttl[cache_key]:`
is_expired(ttl, cache_key, t) ==
    cache_key \in DOMAIN ttl /\ t > ttl[cache_key]

\* Variant: a hit does not refresh the recency order
get_cached_result_no_move(c, ttl, cache_key, t) ==
    IF cache_key \notin CacheKeys(c)
    THEN [cache |-> c, ttl |-> ttl, ret |-> NoneDict]
    ELSE IF is_expired(ttl, cache_key, t)
    THEN [cache |-> CacheDel(c, cache_key), ttl |-> DictDel(ttl, cache_key),
          ret |-> NoneDict]
    ELSE [cache |-> c, ttl |-> ttl, ret |-> CacheGet(c, cache_key)]

get_cached_result(c, ttl, cache_key, t) ==
    IF cache_key \notin CacheKeys(c)
    THEN [cache |-> c, ttl |-> ttl, ret |-> NoneDict]
    ELSE IF is_expired(ttl, cache_key, t)
    THEN [cache |-> CacheDel(c, cache_key), ttl |-> DictDel(ttl, cache_key),
          ret |-> NoneDict]
    ELSE [cache |-> move_to_end(c, cache_key), ttl |-> ttl,
          ret |-> CacheGet(c, cache_key)]

\* Variant: the oldest entry goes only once the store is over its limit
lru_evict_over_limit(c, ttl) ==
    IF Len(c) > MAX_CACHE_SIZE
    THEN LET oldest_key == c[1].k IN
         [cache |-> CacheDel(c, oldest_key), ttl |-> DictDel(ttl, oldest_key)]
    ELSE [cache |-> c, ttl |-> ttl]

\* The eviction at the head of set_cached_result
lru_evict(c, ttl) ==
    IF Len(c) >= MAX_CACHE_SIZE
    THEN LET oldest_key == c[1].k IN
         [cache |-> CacheDel(c, oldest_key), ttl |-> DictDel(ttl, oldest_key)]
    ELSE [cache |-> c, ttl |-> ttl]

set_cached_result(c, ttl, cache_key, result, t, ttl_seconds) ==
    LET e == lru_evict(c, ttl) IN
    [cache |-> move_to_end(CacheSet(e.cache, cache_key, result), cache_key),
     ttl   |-> DictSet(e.ttl, cache_key, t + ttl_seconds)]

clear_cache == [cache |-> <<>>, ttl |-> <<>>]

(***************************************************************************)
(* models/agent_results.py: pydantic models. Model(d) raises unless the    *)
(* required fields are there; unknown fields are ignored; model_dump()     *)
(* gives every declared field.                                             *)
(***************************************************************************)
DictGet(d, key, default) == IF key \in DOMAIN d THEN d[key] ELSE default
Validates(d) == {"status", "analysis"} \subseteq DOMAIN d /\ IsStr(d.analysis)

VisionResult(d) ==
    [agent |-> DictGet(d, "agent", "vision"), status |-> d.status,
     analysis |-> d.analysis, confidence |-> DictGet(d, "confidence", None),
     error |-> DictGet(d, "error", None)]

OCRResult(d) ==
    [agent |-> DictGet(d, "agent", "ocr"), status |-> d.status,
     analysis |-> d.analysis, has_text |-> DictGet(d, "has_text", FALSE),
     confidence |-> DictGet(d, "confidence", None),
     error |-> DictGet(d, "error", None)]

DetectionResult(d) ==
    [agent |-> DictGet(d, "agent", "detection"), status |-> d.status,
     analysis |-> d.analysis, confidence |-> DictGet(d, "confidence", None),
     error |-> DictGet(d, "error", None)]

\* Imported by result_combiner.py but defined nowhere in models/
GeolocationResult(d) ==
    [agent |-> DictGet(d, "agent", "geolocation"), status |-> d.status,
     analysis |-> d.analysis, confidence |-> DictGet(d, "confidence", None),
     coordinates |-> DictGet(d, "coordinates", NoneDict),
     error |-> DictGet(d, "error", None)]

ResultModel(kind, d) ==
    CASE kind = "vision" -> VisionResult(d)
      [] kind = "ocr" -> OCRResult(d)
      [] kind = "detection" -> DetectionResult(d)
      [] kind = "geolocation" -> GeolocationResult(d)

(***************************************************************************)
(* agents/vision_agent.py, ocr_agent.py, detection_agent.py: the executor  *)
(***************************************************************************)
AgentKinds == {"vision", "ocr", "detection", "geolocation"}

\* retry_utils.RETRYABLE_EXCEPTIONS, and the classes an exception is an
\* instance of (openai: AuthenticationError and RateLimitError are
\* APIStatusError, which is APIError)
RETRYABLE_EXCEPTIONS ==
    {"RateLimitError", "APITimeoutError", "APIError", "TimeoutError",
     "ConnectionError"}

Bases(exc) ==
    CASE exc = "RateLimitError" -> {"RateLimitError", "APIError", "Exception"}
      [] exc = "AuthenticationError" -> {"AuthenticationError", "APIError", "Exception"}
      [] exc = "TimeoutError" -> {"TimeoutError", "OSError", "Exception"}
      [] OTHER -> {exc, "Exception"}

IsInstance(exc, classes) == Bases(exc) \cap classes # {}

\* _analyze_internal: ext is what the external capability (self.llm.invoke)
\* does: [ok |-> TRUE, text |-> s] or [ok |-> FALSE, exc |-> e].
has_text(text) == text # "no se detecto texto"

\* GeolocationAgent (agents/geolocation_agent.py) is not among the sources;
\* its result has the fields GeolocationResponseParser.parse gives and
\* geolocation_service.enrich_geolocation_result reads.
geolocation_analyze_internal(ext) ==
    IF ~ext.ok THEN [ok |-> FALSE, exc |-> ext.exc]
    ELSE [ok |-> TRUE, value |->
          [agent |-> "geolocation", status |-> "success",
           analysis |-> ext.text, confidence |-> "medium",
           location |-> [city |-> "Madrid"], coordinates |-> NoneDict]]

_analyze_internal(kind, ext) ==
    IF kind = "geolocation" THEN geolocation_analyze_internal(ext)
    ELSE IF ~ext.ok THEN [ok |-> FALSE, exc |-> ext.exc]
    ELSE IF kind = "ocr" /\ ~IsStr(ext.text)
    THEN [ok |-> FALSE, exc |-> "AttributeError"]
    ELSE IF kind = "ocr"
    THEN [ok |-> TRUE, value |->
          [agent |-> "ocr", status |-> "success", analysis |-> ext.text,
           has_text |-> has_text(ext.text),
           confidence |-> IF has_text(ext.text) THEN "high" ELSE "n/a"]]
    ELSE [ok |-> TRUE, value |->
          [agent |-> kind, status |-> "success", analysis |-> ext.text,
           confidence |-> "high"]]

ErrorResult(kind, error, analysis) ==
    IF kind = "ocr"
    THEN [agent |-> kind, status |-> "error", error |-> error,
          analysis |-> analysis, has_text |-> FALSE]
    ELSE [agent |-> kind, status |-> "error", error |-> error,
          analysis |-> analysis]

TimeoutResult(kind, error) ==
    IF kind = "ocr"
    THEN [agent |-> kind, status |-> "timeout", error |-> error,
          analysis |-> "timed out", has_text |-> FALSE]
    ELSE [agent |-> kind, status |-> "timeout", error |-> error,
          analysis |-> "timed out"]

\* The breaker a call of _analyze_with_protection goes through: the agent's
\* own instance (vision, detection), or one made on the spot (ocr).
BreakerFor(kind, b) ==
    IF kind = "ocr" THEN CircuitBreaker(5, 60) ELSE b

\* The body of _analyze_with_protection, one attempt. bs is the agent's
\* breaker; the result carries it as it is afterwards.
protected_result(kind, bs, r) ==
    IF r.exc = "CircuitBreakerOpenError"
    THEN [b |-> IF kind = "ocr" THEN bs ELSE r.b, invoked |-> r.invoked,
          exc |-> None,
          ret |-> ErrorResult(kind, "Circuit breaker is open", "unavailable")]
    ELSE [b |-> IF kind = "ocr" THEN bs ELSE r.b, invoked |-> r.invoked,
          exc |-> r.exc, ret |-> r.ret]

protected_attempt(kind, bs, t, ext) ==
    protected_result(kind, bs,
        call(BreakerFor(kind, bs), t, _analyze_internal(kind, ext)))

\* config.AGENT_RETRY_MAX_ATTEMPTS
AGENT_RETRY_MAX_ATTEMPTS == 3

Hangs(ext) == "hang" \in DOMAIN ext

\* @agent_retry around the body: attempts i, i+1, ... with exts[i] what the
\* external capability does on attempt i. An attempt that hangs leaves the
\* worker thread inside the call (hung), after the breaker admitted it.
RECURSIVE retry_from(_, _, _, _, _, _)
\* An attempt whose external call does not return: a is the breaker's state
\* check
retry_hung(kind, bs, a, i, calls) ==
    IF a.admitted
    THEN [b |-> IF kind = "ocr" THEN bs ELSE a.b, calls |-> calls + 1,
          ret |-> NoneDict, exc |-> None, hung |-> TRUE, attempt |-> i]
    ELSE [b |-> bs, calls |-> calls, exc |-> None, hung |-> FALSE,
          attempt |-> i,
          ret |-> ErrorResult(kind, "Circuit breaker is open", "unavailable")]

\* Variant: the loop gives up one attempt early
retry_next_one_fewer(kind, t, exts, i, calls, r) ==
    IF r.exc # None /\ IsInstance(r.exc, RETRYABLE_EXCEPTIONS)
       /\ i + 1 < AGENT_RETRY_MAX_ATTEMPTS
    THEN retry_from(kind, r.b, t, exts, i + 1,
                    calls + (IF r.invoked THEN 1 ELSE 0))
    ELSE [b |-> r.b, calls |-> calls + (IF r.invoked THEN 1 ELSE 0),
          ret |-> r.ret, exc |-> r.exc, hung |-> FALSE, attempt |-> i]

\* After attempt i gave r: retry_if_exception_type(RETRYABLE_EXCEPTIONS),
\* stop_after_attempt(max_attempts), reraise=True
retry_next(kind, t, exts, i, calls, r) ==
    IF r.exc # None /\ IsInstance(r.exc, RETRYABLE_EXCEPTIONS)
       /\ i < AGENT_RETRY_MAX_ATTEMPTS
    THEN retry_from(kind, r.b, t, exts, i + 1,
                    calls + (IF r.invoked THEN 1 ELSE 0))
    ELSE [b |-> r.b, calls |-> calls + (IF r.invoked THEN 1 ELSE 0),
          ret |-> r.ret, exc |-> r.exc, hung |-> FALSE, attempt |-> i]

retry_from(kind, bs, t, exts, i, calls) ==
    IF Hangs(exts[i])
    THEN retry_hung(kind, bs, call_admit(BreakerFor(kind, bs), t), i, calls)
    ELSE retry_next(kind, t, exts, i, calls,
                    protected_attempt(kind, bs, t, exts[i]))

agent_retry(kind, bs, t, exts) == retry_from(kind, bs, t, exts, 1, 0)

\* @with_timeout: the worker thread is joined for AGENT_TIMEOUT_SECONDS; if
\* it is still alive, timeout_utils.TimeoutError is raised and the thread is
\* left running.
with_timeout(r) ==
    IF r.hung
    THEN [r EXCEPT !.exc = "timeout_utils.TimeoutError", !.ret = NoneDict]
    ELSE r

_analyze_with_protection(kind, bs, t, exts) ==
    with_timeout(agent_retry(kind, bs, t, exts))

\* Variant: only the except TimeoutError clause; anything else propagates
analyze_except_timeout_only(kind, exc) ==
    IF IsInstance(exc, {"TimeoutError"})
    THEN [ret |-> TimeoutResult(kind, exc), exc |-> None]
    ELSE [ret |-> NoneDict, exc |-> exc]

\* analyze's two except clauses: what an exception raised in the try block
\* becomes. TimeoutError is the builtin; timeout_utils.TimeoutError is not
\* imported by the agents.
analyze_except(kind, exc) ==
    IF IsInstance(exc, {"TimeoutError"})
    THEN [ret |-> TimeoutResult(kind, exc), exc |-> None]
    ELSE [ret |-> ErrorResult(kind, exc, "failed"), exc |-> None]

\* The "Validate result with Pydantic" step at the end of the try block
analyze_validate(kind, result) ==
    IF Validates(result) THEN ResultModel(kind, result) ELSE result

\* Variant: every result is stored, whatever its status
should_cache_always(result) == TRUE

\* `if CACHE_ENABLED and result.get("status") == "success":` (CACHE_ENABLED
\* is True by default)
should_cache(result) ==
    "status" \in DOMAIN result /\ result.status = "success"

\* analyze after _analyze_with_protection gave p (a result or an exception):
\* the store of a success, the validation, the except clauses
analyze_finish(kind, cache_key, cached, p, t) ==
    IF p.exc # None
    THEN LET h == analyze_except(kind, p.exc) IN
         [ret |-> h.ret, exc |-> h.exc, cache |-> cached.cache,
          ttl |-> cached.ttl, b |-> p.b, calls |-> p.calls,
          hit |-> FALSE, hung |-> p.hung, attempt |-> p.attempt]
    ELSE LET st == IF should_cache(p.ret)
                   THEN set_cached_result(cached.cache, cached.ttl,
                            cache_key, p.ret, t, CACHE_TTL_SECONDS)
                   ELSE [cache |-> cached.cache, ttl |-> cached.ttl] IN
         [ret |-> analyze_validate(kind, p.ret), exc |-> None,
          cache |-> st.cache, ttl |-> st.ttl, b |-> p.b,
          calls |-> p.calls, hit |-> FALSE, hung |-> FALSE,
          attempt |-> p.attempt]

\* Variant: while the breaker is open the cached result is not used
analyze_lookup_unless_open(kind, cache_key, cached, exts, bs, t) ==
    IF cached.ret # NoneDict /\ BreakerFor(kind, bs).state # OPEN
    THEN [ret |-> cached.ret, exc |-> None, cache |-> cached.cache,
          ttl |-> cached.ttl, b |-> bs, calls |-> 0, hit |-> TRUE,
          hung |-> FALSE, attempt |-> 0]
    ELSE analyze_finish(kind, cache_key, cached,
                        _analyze_with_protection(kind, bs, t, exts), t)

\* analyze after the cache lookup gave cached
analyze_lookup(kind, cache_key, cached, exts, bs, t) ==
    IF cached.ret # NoneDict
    THEN [ret |-> cached.ret, exc |-> None, cache |-> cached.cache,
          ttl |-> cached.ttl, b |-> bs, calls |-> 0, hit |-> TRUE,
          hung |-> FALSE, attempt |-> 0]
    ELSE analyze_finish(kind, cache_key, cached,
                        _analyze_with_protection(kind, bs, t, exts), t)

\* VisionAgent.analyze / OCRAgent.analyze / DetectionAgent.analyze, run to
\* its return. c, ttl: the shared cache; bs: this agent's breaker.
analyze(kind, image_base64, context, exts, c, ttl, bs, t) ==
    analyze_lookup(kind, get_cache_key(image_base64, kind, context),
                   get_cached_result(c, ttl,
                       get_cache_key(image_base64, kind, context), t),
                   exts, bs, t)

\* The worker thread of a timed-out call, when its external call (attempt i)
\* at last returns or raises: the rest of CircuitBreaker.call, then the rest
\* of the retry loop. Its result goes to a queue nobody reads.
late_return(kind, bs, t, exts, i) ==
    LET f == _analyze_internal(kind, exts[i])
        b1 == IF kind = "ocr" THEN bs
              ELSE IF f.ok THEN _on_success(bs) ELSE _on_failure(bs, t) IN
    IF ~f.ok /\ IsInstance(f.exc, RETRYABLE_EXCEPTIONS)
       /\ i < AGENT_RETRY_MAX_ATTEMPTS
    THEN retry_from(kind, b1, t, exts, i + 1, 0)
    ELSE [b |-> b1, calls |-> 0, ret |-> NoneDict, exc |-> None,
          hung |-> FALSE, attempt |-> i]

(***************************************************************************)
(* SpecBreaker: one CircuitBreaker instance (the vision agent's), calls    *)
(* made one at a time through _analyze_with_protection's body              *)
(***************************************************************************)
Min(a, b) == IF a < b THEN a ELSE b
NoKey == <<>>

\* The threads that call through one breaker, and a thread outside call
Threads == {"t1", "t2"}
Idle == [pc |-> "idle", tmp |-> 0]
NoOutcomes == [calls |-> 0, fail |-> 0, succ |-> FALSE, overlapped |-> FALSE]

InitBreakerVars ==
    /\ breaker = CircuitBreaker(CIRCUIT_BREAKER_FAILURE_THRESHOLD,
                                CIRCUIT_BREAKER_RECOVERY_TIMEOUT)
    /\ bcall = NoneDict
    /\ hist = [fails |-> 0, succs |-> 0]
    /\ threads = [th \in Threads |-> Idle]
    /\ thist = NoOutcomes

\* A thread outside get_cached_result / set_cached_result
CIdle == [pc |-> "idle", key |-> <<>>, tmp |-> <<>>]
NoCacheCalls == [calls |-> 0, raised |-> None, overlapped |-> FALSE]

InitCacheVars ==
    /\ _cache = <<>>
    /\ _cache_ttl = <<>>
    /\ cop = NoneDict
    /\ recency = <<>>
    /\ stored = <<>>
    /\ cthreads = [th \in Threads |-> CIdle]
    /\ chist = NoCacheCalls

NoStreak == [n |-> 0, at |-> NoTime]

\* metrics_utils._agent_stats: the defaultdict's entry for a new agent name
\* (the latencies are left out: no counter depends on them)
NoStats ==
    [total_calls |-> 0, success_count |-> 0, error_count |-> 0,
     timeout_count |-> 0]

\* AgentRunners.__init__: every agent is built once, with its breaker
InitAgentVars ==
    /\ breakers = [k \in AgentKinds |->
                     CircuitBreaker(CIRCUIT_BREAKER_FAILURE_THRESHOLD,
                                    CIRCUIT_BREAKER_RECOVERY_TIMEOUT)]
    /\ abandoned = NoneDict
    /\ streak = [k \in AgentKinds |-> NoStreak]
    /\ acall = NoneDict
    /\ aprev = NoneDict
    /\ ncalls = 0
    /\ _agent_stats = [k \in AgentKinds |-> NoStats]

\* Before analyze_multi_frame is called
MfIdle == [pc |-> "idle"]

\* Before analyze_frame is called
InitGraphVars ==
    /\ phase = "idle"
    /\ state = NoneDict
    /\ tasks = [k \in AgentKinds |-> [done |-> FALSE, write |-> NoneDict,
                                      ext |-> "none", dispatched |-> 0,
                                      lookups |-> 0, calls |-> 0]]
    /\ combined = [count |-> 0, unfinished |-> {}, exc |-> None]
    /\ report = NoneDict
    /\ mf = MfIdle

InitBreaker ==
    /\ now = 0
    /\ InitBreakerVars
    /\ InitCacheVars
    /\ InitAgentVars
    /\ InitGraphVars

BreakerTick ==
    /\ now < MaxTime
    /\ now' = now + 1
    /\ UNCHANGED <<breakerVars, cacheVars, cacheHist, agentVars, graphVars>>

BreakerCall(ext) ==
    LET r == protected_attempt("vision", breaker, now, ext) IN
    /\ breaker' = r.b
    /\ bcall' = [pre |-> breaker, at |-> now, invoked |-> r.invoked,
                 ret |-> r.ret, exc |-> r.exc,
                 raised |-> call(breaker, now,
                                 _analyze_internal("vision", ext)).exc]
    /\ hist' = IF ~r.invoked THEN [hist EXCEPT !.succs = 0]
               ELSE IF r.exc = None
               THEN [fails |-> 0,
                     succs |-> Min(hist.succs + 1, SuccessesToClose)]
               ELSE [fails |-> Min(hist.fails + 1,
                                   breaker.failure_threshold),
                     succs |-> 0]
    /\ UNCHANGED <<now, threadVars, cacheVars, cacheHist, agentVars, graphVars>>

NextBreaker ==
    \/ BreakerTick
    \/ \E ext \in [ok : {TRUE}, text : {"street"}]
                  \cup [ok : {FALSE}, exc : {"RateLimitError", "ValueError"}] :
          BreakerCall(ext)

SpecBreaker == InitBreaker /\ [][NextBreaker]_vars

(***************************************************************************)
(* SpecCache: get_cached_result / set_cached_result / clear_cache called   *)
(* one at a time                                                           *)
(***************************************************************************)
CacheSpecKeys ==
    {get_cache_key(<<d>>, k, "") : d \in {"AAA", "BBB"}, k \in {"vision", "ocr"}}
CacheSpecValues ==
    {_analyze_internal("vision", [ok |-> TRUE, text |-> x]).value :
        x \in {"street"}}

Touch(r, key) == Append(SelectSeq(r, LAMBDA x : x # key), key)
Forget(r, gone) == SelectSeq(r, LAMBDA x : x \notin gone)
Drop(d, gone) == [x \in DOMAIN d \ gone |-> d[x]]

InitCache ==
    /\ now = 0
    /\ InitBreakerVars
    /\ InitCacheVars
    /\ InitAgentVars
    /\ InitGraphVars

CacheTick ==
    /\ now < MaxTime
    /\ now' = now + 1
    /\ UNCHANGED <<breakerVars, cacheVars, cacheHist, agentVars, graphVars>>

CacheGetOp(key) ==
    LET g == get_cached_result(_cache, _cache_ttl, key, now)
        gone == CacheKeys(_cache) \ CacheKeys(g.cache) IN
    /\ _cache' = g.cache
    /\ _cache_ttl' = g.ttl
    /\ cop' = [op |-> "get", key |-> key, ret |-> g.ret, removed |-> gone,
               lru |-> NoKey, preLen |-> Len(_cache),
               present |-> key \in CacheKeys(_cache),
               prevHit |-> NoKey, peak |-> Len(_cache),
               live |-> /\ key \in DOMAIN stored
                        /\ now <= stored[key].at + CACHE_TTL_SECONDS]
    /\ recency' = IF g.ret # NoneDict THEN Touch(recency, key)
                  ELSE Forget(recency, gone)
    /\ stored' = Drop(stored, gone)
    /\ UNCHANGED <<now, cthreadVars, breakerVars, agentVars, graphVars>>

CacheSetOp(key, v) ==
    LET st == set_cached_result(_cache, _cache_ttl, key, v, now, CACHE_TTL_SECONDS)
        gone == CacheKeys(_cache) \ CacheKeys(st.cache) IN
    /\ _cache' = st.cache
    /\ _cache_ttl' = st.ttl
    /\ cop' = [op |-> "set", key |-> key, ret |-> NoneDict, removed |-> gone,
               lru |-> IF recency = <<>> THEN NoKey ELSE Head(recency),
               preLen |-> Len(_cache),
               present |-> key \in CacheKeys(_cache),
               prevHit |-> IF cop # NoneDict /\ cop.op = "get"
                              /\ cop.ret # NoneDict
                           THEN cop.key ELSE NoKey, live |-> FALSE,
               peak |-> Len(CacheSet(lru_evict(_cache, _cache_ttl).cache, key, v))]
    /\ recency' = Touch(Forget(recency, gone), key)
    /\ stored' = DictSet(Drop(stored, gone), key, [at |-> now, value |-> v])
    /\ UNCHANGED <<now, cthreadVars, breakerVars, agentVars, graphVars>>

CacheClearOp ==
    /\ _cache # <<>>
    /\ _cache' = clear_cache.cache
    /\ _cache_ttl' = clear_cache.ttl
    /\ cop' = [op |-> "clear", key |-> NoKey, ret |-> NoneDict,
               removed |-> CacheKeys(_cache), lru |-> NoKey,
               preLen |-> Len(_cache), present |-> FALSE, prevHit |-> NoKey,
               live |-> FALSE, peak |-> Len(_cache)]
    /\ recency' = <<>>
    /\ stored' = <<>>
    /\ UNCHANGED <<now, cthreadVars, breakerVars, agentVars, graphVars>>

NextCache ==
    \/ CacheTick
    \/ \E key \in CacheSpecKeys : CacheGetOp(key)
    \/ \E key \in CacheSpecKeys, v \in CacheSpecValues : CacheSetOp(key, v)
    \/ CacheClearOp

SpecCache == InitCache /\ [][NextCache]_vars

(***************************************************************************)
(* SpecAgent: analyze called one call at a time on agents that share the   *)
(* cache; a call the timeout abandoned may complete later                  *)
(***************************************************************************)
AgentSpecKinds == {"vision", "ocr"}
Images == {<<"data:image/png;base64", "AAA">>}
Contexts == {""}
ExtBehaviours ==
    [ok : {TRUE}, text : {"street", NonStr}]
    \cup [ok : {FALSE}, exc : {"RateLimitError", "TimeoutError", "ValueError",
                               "AuthenticationError"}]
    \cup {ExtHang}
\* What the external capability does on the attempts of one call: it raises
\* the same retryable exception some number of times, and then whatever it
\* does on the attempt after those (which the retry loop may never reach).
Retried(ext) ==
    ~Hangs(ext) /\ ~ext.ok /\ IsInstance(ext.exc, RETRYABLE_EXCEPTIONS)
ExtSeqs ==
    {exts \in [1 .. AGENT_RETRY_MAX_ATTEMPTS -> ExtBehaviours] :
        \E n \in 0 .. AGENT_RETRY_MAX_ATTEMPTS :
            /\ \A i \in 1 .. n : Retried(exts[i]) /\ exts[i] = exts[1]
            /\ n < AGENT_RETRY_MAX_ATTEMPTS =>
                  /\ ~Retried(exts[n + 1])
                  /\ \A i \in n + 2 .. AGENT_RETRY_MAX_ATTEMPTS : exts[i] = ExtHang}

\* What it does on the attempts of an abandoned worker: the same every time
LateSeqs ==
    {[i \in 1 .. AGENT_RETRY_MAX_ATTEMPTS |-> ext] :
        ext \in ExtBehaviours \ {ExtHang}}

InitAgent ==
    /\ now = 0
    /\ InitBreakerVars
    /\ InitCacheVars
    /\ InitAgentVars
    /\ InitGraphVars

AgentTick ==
    /\ now < AgentMaxTime
    /\ now' = now + 1
    /\ UNCHANGED <<breakerVars, cacheVars, cacheHist, agentVars, graphVars>>

\* Failures of the external call that are not transient: invalid input,
\* authorization failure, a response of the wrong shape
NonTransient == {"ValueError", "AuthenticationError", "AttributeError"}

\* The non-transient exception the first attempt raises, if it raises one
first_permanent(kind, ext) ==
    IF Hangs(ext) \/ _analyze_internal(kind, ext).ok THEN None
    ELSE IF _analyze_internal(kind, ext).exc \in NonTransient
    THEN _analyze_internal(kind, ext).exc
    ELSE None

\* The run of consecutive failed external calls of one kind after a call of
\* analyze: the attempts that reached the external capability all failed but
\* perhaps the last. A call that left a worker behind starts the count anew.
streak_after(s, kind, exts, r, t) ==
    IF r.hung THEN NoStreak
    ELSE IF r.calls = 0 THEN s
    ELSE IF _analyze_internal(kind, exts[r.calls]).ok THEN NoStreak
    ELSE [n |-> Min(s.n + r.calls, CIRCUIT_BREAKER_FAILURE_THRESHOLD), at |-> t]

Worker(kind, r) ==
    IF r.hung THEN [kind |-> kind, attempt |-> r.attempt] ELSE NoneDict

Analyze(kind, image_base64, context, exts) ==
    /\ ncalls < MaxCalls
    /\ ncalls' = ncalls + 1
    /\ \E r \in {analyze(kind, image_base64, context, exts, _cache, _cache_ttl,
                         breakers[kind], now)} :
       /\ r.hung => abandoned = NoneDict
       /\ _cache' = r.cache
       /\ _cache_ttl' = r.ttl
       /\ breakers' = [breakers EXCEPT ![kind] = r.b]
       /\ abandoned' = IF r.hung THEN Worker(kind, r) ELSE abandoned
       /\ acall' = [kind |-> kind, image |-> image_base64, context |-> context,
                    at |-> now, ret |-> r.ret, exc |-> r.exc, calls |-> r.calls,
                    hit |-> r.hit, hung |-> r.hung,
                    permanent |-> first_permanent(kind, exts[1]),
                    afterFailure |->
                        /\ acall # NoneDict
                        /\ acall.kind = kind /\ acall.image = image_base64
                        /\ acall.context = context
                        /\ acall.ret.status \in {"error", "timeout"},
                    tripped |->
                        /\ streak[kind].n >= CIRCUIT_BREAKER_FAILURE_THRESHOLD
                        /\ now < streak[kind].at + CIRCUIT_BREAKER_RECOVERY_TIMEOUT]
       /\ streak' = [streak EXCEPT
                        ![kind] = streak_after(streak[kind], kind, exts, r, now)]
       /\ aprev' = IF acall # NoneDict /\ acall.kind = kind
                       /\ acall.image = image_base64 /\ acall.context = context
                       /\ now - acall.at <= CACHE_TTL_SECONDS
                       /\ acall.ret.status = "success" /\ acall.calls = 1
                    THEN [ret |-> acall.ret, calls |-> acall.calls]
                    ELSE NoneDict
    /\ UNCHANGED <<now, breakerVars, cacheHist, _agent_stats, graphVars>>

LateReturn(exts) ==
    /\ abandoned # NoneDict
    /\ ~Hangs(exts[abandoned.attempt])
    /\ LET r == late_return(abandoned.kind, breakers[abandoned.kind], now,
                            exts, abandoned.attempt) IN
       /\ breakers' = [breakers EXCEPT ![abandoned.kind] = r.b]
       /\ abandoned' = Worker(abandoned.kind, r)
       /\ streak' = [streak EXCEPT ![abandoned.kind] = NoStreak]
    /\ UNCHANGED <<now, breakerVars, cacheVars, cacheHist, acall, aprev, ncalls,
                   _agent_stats, graphVars>>

NextAgent ==
    \/ AgentTick
    \/ \E kind \in AgentSpecKinds, image \in Images, context \in Contexts,
          exts \in ExtSeqs : Analyze(kind, image, context, exts)
    \/ \E exts \in LateSeqs : LateReturn(exts)

SpecAgent == InitAgent /\ [][NextAgent]_vars

(***************************************************************************)
(* agents/coordinator/: the runners, the combiner, the text report         *)
(***************************************************************************)
EmptyDict == [x \in {} |-> x]
IsEmpty(d) == DOMAIN d = {}
\* `state.get(key) or {}`
OrEmpty(d) == IF d = NoneDict THEN EmptyDict ELSE d

ResultKey(kind) ==
    CASE kind = "vision" -> "vision_result"
      [] kind = "ocr" -> "ocr_result"
      [] kind = "detection" -> "detection_result"
      [] kind = "geolocation" -> "geolocation_result"

\* The dict a runner returns from its own except clause
RunnerError(kind, exc) ==
    CASE kind = "ocr" ->
           [agent |-> kind, status |-> "error", error |-> exc,
            analysis |-> "failed", has_text |-> FALSE]
      [] kind = "geolocation" ->
           [agent |-> kind, status |-> "error", error |-> exc,
            analysis |-> "failed", location |-> EmptyDict]
      [] OTHER ->
           [agent |-> kind, status |-> "error", error |-> exc,
            analysis |-> "failed"]

\* GeolocationService.enrich_geolocation_result: with no coordinates and a
\* location, the address is geocoded; found says whether geocode_address
\* found it. A result with neither is copied as it is.
enrich_geolocation_result(result, found) ==
    IF DictGet(result, "coordinates", NoneDict) = NoneDict
       /\ ~IsEmpty(DictGet(result, "location", EmptyDict))
       /\ found
    THEN [x \in DOMAIN result \cup {"coordinates", "geocoded_address", "map_url"} |->
            CASE x = "coordinates" -> [lat |-> 40, lon |-> -3]
              [] x = "geocoded_address" -> "Madrid, Spain"
              [] x = "map_url" -> "/maps/map.html"
              [] OTHER -> result[x]]
    ELSE result

\* What a runner makes of its agent's analyze: r is what analyze did (its
\* return value or exception, the cache and the agent's breaker afterwards)
runner_result(kind, found, r) ==
    [write |-> IF r.exc # None THEN RunnerError(kind, r.exc)
               ELSE IF kind = "geolocation"
               THEN enrich_geolocation_result(r.ret, found)
               ELSE r.ret,
     cache |-> r.cache, ttl |-> r.ttl, b |-> r.b,
     dispatched |-> 1, lookups |-> 1, calls |-> r.calls]

\* run_vision_agent / run_ocr_agent / run_detection_agent /
\* run_geolocation_agent on the graph state st: what the node writes, and
\* the cache and the agent's breaker afterwards.
run_agent(kind, st, exts, found, c, ttl, bs, t) ==
    IF kind \notin st.agents_to_run
    THEN [write |-> NoneDict, cache |-> c, ttl |-> ttl, b |-> bs,
          dispatched |-> 0, lookups |-> 0, calls |-> 0]
    ELSE runner_result(kind, found,
             analyze(kind, st.image_base64, st.context, exts, c, ttl, bs, t))

\* models.AgentResults: the fields vision, ocr and detection; a keyword it
\* does not declare (geolocation) is ignored.
AgentResults(vision, ocr, detection, geolocation) ==
    [vision |-> vision, ocr |-> ocr, detection |-> detection]

FinalReport(timestamp, status, agents) ==
    [timestamp |-> timestamp, status |-> status, agents |-> agents]

SkippedResult(kind) ==
    ResultModel(kind, [agent |-> kind, status |-> "skipped",
                       analysis |-> "Agent was skipped"])

_build_fallback_report(vision, ocr, detection, geolocation, t) ==
    [timestamp |-> t, status |-> "success",
     agents |->
        [vision |->
            [status |-> DictGet(vision, "status", "unknown"),
             confidence |-> DictGet(vision, "confidence", "unknown"),
             analysis |-> DictGet(vision, "analysis", "")],
         ocr |->
            [status |-> DictGet(ocr, "status", "unknown"),
             has_text |-> DictGet(ocr, "has_text", FALSE),
             confidence |-> DictGet(ocr, "confidence", "unknown"),
             analysis |-> DictGet(ocr, "analysis", "")],
         detection |->
            [status |-> DictGet(detection, "status", "unknown"),
             confidence |-> DictGet(detection, "confidence", "unknown"),
             analysis |-> DictGet(detection, "analysis", "")],
         geolocation |->
            [status |-> IF IsEmpty(geolocation) THEN "skipped"
                        ELSE DictGet(geolocation, "status", "unknown"),
             analysis |-> DictGet(geolocation, "analysis", "")]]]

\* report_generator: one line per section; a line is what was put in the
\* list that "\n".join is applied to.
Line(what, s) == [line |-> what, s |-> s]

_format_vision_section(vision) ==
    IF DictGet(vision, "status", None) = "success"
    THEN Line("analysis", DictGet(vision, "analysis", "No analysis available"))
    ELSE Line("error", DictGet(vision, "error", "Vision analysis failed"))

_format_ocr_section(ocr) ==
    IF DictGet(ocr, "status", None) = "success"
    THEN Line("analysis", DictGet(ocr, "analysis", "No text detected"))
    ELSE Line("error", DictGet(ocr, "error", "OCR extraction failed"))

_format_detection_section(detection) ==
    IF DictGet(detection, "status", None) = "success"
    THEN Line("analysis", DictGet(detection, "analysis", "No detections available"))
    ELSE IF DictGet(detection, "status", None) = "skipped"
    THEN Line("omitted", "Detection Agent fue omitido")
    ELSE Line("error", DictGet(detection, "error", "Detection analysis failed"))

_format_geolocation_section(geolocation) ==
    IF IsEmpty(geolocation)
    THEN Line("not run", "Geolocation Agent no ejecutado")
    ELSE IF DictGet(geolocation, "status", None) = "success"
    THEN Line("analysis",
              DictGet(geolocation, "analysis", "No geolocation analysis available"))
    ELSE IF DictGet(geolocation, "status", None) = "skipped"
    THEN Line("omitted", "Geolocation Agent fue omitido")
    ELSE Line("error", DictGet(geolocation, "error", "Geolocation analysis failed"))

\* The report's sections in the order report_lines is extended in, each
\* with its title; "\n".join raises TypeError on an item that is not a str
format_text_report(vision, ocr, detection, geolocation) ==
    LET lines == <<[title |-> "1. ANALISIS VISUAL GENERAL", kind |-> "vision",
                    body |-> _format_vision_section(vision)],
                   [title |-> "2. EXTRACCION DE TEXTO (OCR)", kind |-> "ocr",
                    body |-> _format_ocr_section(ocr)],
                   [title |-> "3. DETECCION DE OBJETOS Y PERSONAS",
                    kind |-> "detection",
                    body |-> _format_detection_section(detection)],
                   [title |-> "4. ANALISIS DE GEOLOCALIZACION",
                    kind |-> "geolocation",
                    body |-> _format_geolocation_section(geolocation)]>> IN
    IF \A k \in DOMAIN lines : IsStr(lines[k].body.s)
    THEN [ok |-> TRUE, value |-> lines]
    ELSE [ok |-> FALSE, exc |-> "TypeError"]

\* ResultCombiner.combine_results on the graph state st at time t
combine_results(st, t) ==
    LET vision == OrEmpty(st.vision_result)
        ocr == OrEmpty(st.ocr_result)
        detection == OrEmpty(st.detection_result)
        geolocation == OrEmpty(st.geolocation_result)
        validates == /\ IsEmpty(vision) \/ Validates(vision)
                     /\ IsEmpty(ocr) \/ Validates(ocr)
                     /\ IsEmpty(detection) \/ Validates(detection)
                     /\ IsEmpty(geolocation) \/ Validates(geolocation)
        json_report ==
            IF validates
            THEN FinalReport(t, "success",
                     AgentResults(
                         IF IsEmpty(vision) THEN SkippedResult("vision")
                         ELSE VisionResult(vision),
                         IF IsEmpty(ocr) THEN SkippedResult("ocr")
                         ELSE OCRResult(ocr),
                         IF IsEmpty(detection) THEN SkippedResult("detection")
                         ELSE DetectionResult(detection),
                         IF IsEmpty(geolocation) THEN NoneDict
                         ELSE GeolocationResult(geolocation)))
            ELSE _build_fallback_report(vision, ocr, detection, geolocation, t)
        text_report == format_text_report(vision, ocr, detection, geolocation) IN
    IF text_report.ok
    THEN [exc |-> None,
          final_report |-> [json |-> json_report, text |-> text_report.value]]
    ELSE [exc |-> text_report.exc, final_report |-> NoneDict]

\* image_utils.verify_image_size: decodes the payload for the log; one that
\* cannot be decoded gives None, never an exception.
DecodableData == {"AAA", "BIG"}
\* Payloads longer than the routes' MAX_BASE64_SIZE_BYTES
OversizedData == {"BIG"}

image_data(image_base64) ==
    IF Len(image_base64) > 1 THEN image_base64[2] ELSE image_base64[1]

verify_image_size(image_base64) ==
    LET data == image_data(image_base64) IN
    IF data \in OversizedData THEN [width |-> 7680, height |-> 4320]
    ELSE IF data \in DecodableData THEN [width |-> 640, height |-> 360]
    ELSE NoneDict

(***************************************************************************)
(* Spec: one analyze_frame call on a coordinator just built. The graph     *)
(* runs in supersteps: the four agent nodes (START's successors) run in    *)
(* any order, their writes are applied when all have finished, and then    *)
(* the nodes they lead to (combine) run.                                   *)
(***************************************************************************)
NoList == {None}
AgentSelections == (SUBSET AgentKinds) \cup {NoList}
GraphImages ==
    Images \cup {<<"not an image">>, <<"data:image/png;base64", "BIG">>}

\* What the external capability does on every attempt of a node's call
GraphExts ==
    {[i \in 1 .. AGENT_RETRY_MAX_ATTEMPTS |-> ext] :
        ext \in [ok : {TRUE}, text : {"street", NonStr}]
                \cup [ok : {FALSE}, exc : {"ValueError", "TimeoutError"}]}

ExtClass(exts) ==
    IF ~exts[1].ok THEN "raised"
    ELSE IF IsStr(exts[1].text) THEN "ok" ELSE "odd"

\* Variant: combine is released by the first agent node that finishes
superstep_complete_any(t) == \E k \in AgentKinds : t[k].done

\* build_analysis_graph: every agent node has an edge to combine, so combine
\* runs in the superstep after the one all four run in
superstep_complete(t) == \A k \in AgentKinds : t[k].done

apply_writes(st, t) ==
    [x \in DOMAIN st |->
        IF \E k \in AgentKinds : ResultKey(k) = x /\ t[k].done
        THEN t[CHOOSE k \in AgentKinds : ResultKey(k) = x].write
        ELSE st[x]]

AnalyzeFrame(image_base64, context, agents_to_run) ==
    /\ phase = "idle"
    /\ verify_image_size(image_base64) \in
          {NoneDict} \cup [width : {640, 7680}, height : {360, 4320}]
    /\ state' = [image_base64 |-> image_base64,
                 context |-> context,
                 agents_to_run |-> IF agents_to_run = NoList THEN AgentKinds
                                   ELSE agents_to_run,
                 vision_result |-> NoneDict,
                 ocr_result |-> NoneDict,
                 detection_result |-> NoneDict,
                 geolocation_result |-> NoneDict,
                 final_report |-> NoneDict]
    /\ phase' = "agents"
    /\ UNCHANGED <<now, breakerVars, cacheVars, cacheHist, agentVars, tasks,
                   combined, report, mf>>

RunNode(kind, exts, found) ==
    /\ phase = "agents"
    /\ ~tasks[kind].done
    /\ \E r \in {run_agent(kind, state, exts, found, _cache, _cache_ttl,
                            breakers[kind], now)} :
          /\ tasks' = [tasks EXCEPT ![kind] =
                          [done |-> TRUE, write |-> r.write,
                           ext |-> IF kind \in state.agents_to_run
                                   THEN ExtClass(exts) ELSE "skipped",
                           dispatched |-> tasks[kind].dispatched + r.dispatched,
                           lookups |-> r.lookups,
                           calls |-> r.calls]]
          /\ _cache' = r.cache
          /\ _cache_ttl' = r.ttl
          /\ breakers' = [breakers EXCEPT ![kind] = r.b]
    /\ UNCHANGED <<now, breakerVars, cacheHist, abandoned, acall, aprev, ncalls, streak,
                   _agent_stats, phase, state, combined, report, mf>>

EndSuperstep ==
    /\ phase = "agents"
    /\ superstep_complete(tasks)
    /\ state' = apply_writes(state, tasks)
    /\ phase' = "combine"
    /\ UNCHANGED <<now, breakerVars, cacheVars, cacheHist, agentVars, tasks,
                   combined, report, mf>>

Combine ==
    /\ phase = "combine"
    /\ \E r \in {combine_results(state, now)} :
          /\ combined' = [count |-> combined.count + 1,
                          unfinished |-> {k \in AgentKinds : ~tasks[k].done},
                          exc |-> r.exc]
          /\ state' = IF r.exc = None
                      THEN [state EXCEPT !.final_report = r.final_report]
                      ELSE state
          /\ phase' = IF r.exc = None THEN "end" ELSE "raised"
    /\ UNCHANGED <<now, breakerVars, cacheVars, cacheHist, agentVars, tasks,
                   report, mf>>

\* analyze_frame's return: the final state's report, or what its except
\* clause builds from the exception graph.invoke raised
Return ==
    /\ phase \in {"end", "raised"}
    /\ report' = IF phase = "end" THEN state.final_report
                 ELSE [json |-> [status |-> "error", error |-> combined.exc],
                       text |-> [error |-> combined.exc]]
    /\ phase' = "returned"
    /\ UNCHANGED <<now, breakerVars, cacheVars, cacheHist, agentVars, state,
                   tasks, combined, mf>>

Init ==
    /\ now = 0
    /\ InitBreakerVars
    /\ InitCacheVars
    /\ InitAgentVars
    /\ InitGraphVars

Next ==
    \/ \E image \in GraphImages, context \in Contexts,
          agents \in AgentSelections : AnalyzeFrame(image, context, agents)
    \/ \E kind \in AgentKinds, exts \in GraphExts, found \in BOOLEAN :
          RunNode(kind, exts, found)
    \/ EndSuperstep
    \/ Combine
    \/ Return

Spec == Init /\ [][Next]_vars

(***************************************************************************)
(* Properties                                                              *)
(***************************************************************************)
Called == bcall # NoneDict
Failed == Called /\ bcall.invoked /\ bcall.exc # None
Succeeded == Called /\ bcall.invoked /\ bcall.exc = None
\* The call came after the recovery timeout of an open breaker had elapsed
Recovering ==
    /\ Called
    /\ bcall.pre.state = OPEN
    /\ bcall.at - bcall.pre.last_failure_time >= bcall.pre.recovery_timeout
Rejectable ==
    /\ Called
    /\ bcall.pre.state = OPEN
    /\ bcall.at - bcall.pre.last_failure_time < bcall.pre.recovery_timeout

\* C4: after failure_threshold consecutive failed calls the breaker is Open,
\* and a call attempted while it is Open and before recovery_timeout has
\* elapsed does not invoke the wrapped function: CircuitBreaker.call raises
\* CircuitBreakerOpenError, which the agent returns as an error result.
C4_OpenAtThreshold ==
    /\ hist.fails >= breaker.failure_threshold => breaker.state = OPEN
    /\ Rejectable =>
          /\ ~bcall.invoked
          /\ bcall.raised = "CircuitBreakerOpenError"
          /\ bcall.exc = None
          /\ bcall.ret.status = "error"

C4_Witness ==
    /\ Rejectable
    /\ hist.fails >= breaker.failure_threshold
    /\ bcall.pre.failure_count = bcall.pre.failure_threshold

\* C5: a call made once recovery_timeout has elapsed since the last failure
\* of an Open breaker is admitted as a HalfOpen trial; after one trial
\* success the breaker is still HalfOpen, and a HalfOpen breaker becomes
\* Closed exactly when the second admitted call in a row succeeds.
C5_Recovery ==
    /\ Recovering => bcall.invoked
    /\ (Recovering /\ Succeeded) =>
          breaker.state = HALF_OPEN /\ hist.succs = 1
    /\ (Called /\ bcall.pre.state = HALF_OPEN) =>
          /\ bcall.invoked
          /\ breaker.state = CLOSED <=> (Succeeded /\ hist.succs = SuccessesToClose)
          /\ breaker.state # HALF_OPEN
    /\ (Called /\ bcall.pre.state # CLOSED /\ breaker.state = CLOSED) =>
          hist.succs >= SuccessesToClose

C5_Witness ==
    /\ Called
    /\ bcall.pre.state = HALF_OPEN
    /\ breaker.state = CLOSED
    /\ hist.succs = SuccessesToClose

\* C6: a failure of a call made while the breaker is HalfOpen (a trial)
\* leaves it Open, whatever failure_count and success_count are, and the
\* recovery timeout runs again from the time of that failure.
C6_TrialFailureReopens ==
    (Failed /\ (bcall.pre.state = HALF_OPEN \/ Recovering)) =>
        /\ breaker.state = OPEN
        /\ breaker.last_failure_time = bcall.at
        /\ \A t \in bcall.at .. (bcall.at + breaker.recovery_timeout - 1) :
              ~call_admit(breaker, t).admitted
        /\ call_admit(breaker, bcall.at + breaker.recovery_timeout).admitted

C6_Witness ==
    /\ Failed
    /\ bcall.pre.state = HALF_OPEN
    /\ bcall.pre.success_count = 1
    /\ breaker.failure_count < breaker.failure_threshold
    /\ breaker.state = OPEN

WasSet == cop # NoneDict /\ cop.op = "set"
\* A put of a key that is not in the store, into a full store
Overflow == WasSet /\ ~cop.present /\ cop.preLen >= MAX_CACHE_SIZE

\* C8: a put of a new key into a full cache removes exactly one entry, the
\* least recently used one (hits of get_cached_result and puts are uses), so
\* the key that the preceding get_cached_result hit is not evicted.
C8_LruEviction ==
    Overflow =>
        /\ cop.removed = {cop.lru}
        /\ Len(_cache) = MAX_CACHE_SIZE
        /\ cop.key \in CacheKeys(_cache)
        /\ (cop.prevHit # NoKey /\ cop.preLen > 1) => cop.prevHit \notin cop.removed

C8_Witness ==
    /\ Overflow
    /\ cop.prevHit # NoKey
    /\ cop.removed # {}
    /\ cop.prevHit \in CacheKeys(_cache)

(***************************************************************************)
(* The executor: analyze                                                   *)
(***************************************************************************)
Analyzed == acall # NoneDict

\* C2: analyze never propagates an exception to its caller: whatever the
\* external call does (returns text, raises on any attempt, hangs until the
\* local timeout) and whatever the breaker says, it returns a result whose
\* status is success, error or timeout.
C2_NeverRaises ==
    Analyzed =>
        /\ acall.exc = None
        /\ acall.ret # NoneDict
        /\ "status" \in DOMAIN acall.ret
        /\ acall.ret.status \in {"success", "error", "timeout"}

\* A call the open breaker rejected has returned an error result, after an
\* earlier call whose every attempt raised.
C2_Witness ==
    /\ Analyzed
    /\ ~acall.hit
    /\ acall.calls = 0
    /\ acall.ret.status = "error"
    /\ acall.ret.error = "Circuit breaker is open"
    /\ breakers[acall.kind].state = OPEN

\* C7: two calls of analyze with the same (kind, payload, context) within
\* the TTL, the first of which succeeded on its one external call, return
\* the same fields with the same values, and the external capability is
\* invoked once over the two calls.
SameCallAgain == Analyzed /\ aprev # NoneDict

C7_CacheIdempotence ==
    SameCallAgain =>
        /\ acall.ret = aprev.ret
        /\ aprev.calls + acall.calls = 1

\* The part of C7 that holds: the second call is served from the cache, with
\* no external call, and the fields both results have agree.
C7_SecondCallIsHit ==
    (SameCallAgain /\ Validates(aprev.ret)) =>
        /\ acall.hit
        /\ aprev.calls + acall.calls = 1
        /\ \A f \in DOMAIN acall.ret \cap DOMAIN aprev.ret :
              acall.ret[f] = aprev.ret[f]

(***************************************************************************)
(* The coordinator: analyze_frame                                          *)
(***************************************************************************)
Returned == phase = "returned"
Selected == state.agents_to_run
\* The per-agent map of the returned report
PerAgent ==
    IF "agents" \in DOMAIN report.json THEN report.json.agents ELSE EmptyDict
Completed == Returned /\ combined.exc = None

\* C1: whatever subset of kinds is selected and whatever the selected
\* agents' outcomes, the per-agent map of the returned report has exactly
\* one entry for each of vision, ocr, detection and geolocation, and every
\* kind that was not selected has an entry with status skipped.
C1_Totality ==
    Completed =>
        /\ DOMAIN PerAgent = AgentKinds
        /\ \A k \in AgentKinds \ Selected : PerAgent[k].status = "skipped"

\* C3: analyze_frame always returns a report that carries an overall
\* status and a per-agent entry for every registry kind, whatever the
\* payload and the agents' outcomes.
C3_CompleteReport ==
    Returned =>
        /\ report # NoneDict
        /\ "status" \in DOMAIN report.json
        /\ AgentKinds \subseteq DOMAIN PerAgent

\* C9: within one analyze_frame run the combine node runs once, and when it
\* runs every agent node, dispatched or skipped, has finished and its write
\* is in the state the report is built from; no node is still running.
C9_CombineOnceAfterAll ==
    /\ combined.count <= 1
    /\ combined.count = 1 =>
          /\ combined.unfinished = {}
          /\ \A k \in AgentKinds :
                tasks[k].done /\ state[ResultKey(k)] = tasks[k].write
    /\ phase \in {"end", "raised", "returned"} <=> combined.count = 1

\* A run of all four agents, of which one failed and one succeeded, has
\* returned the report the one run of combine built.
C9_Witness ==
    /\ Completed
    /\ combined.count = 1
    /\ Selected = AgentKinds
    /\ tasks["vision"].ext = "raised"
    /\ tasks["ocr"].ext = "ok"
    /\ report = state.final_report

\* C10: in a run where one selected kind's external call always fails, the
\* run completes and every other selected kind whose external call
\* succeeded has status success in the report.
C10_FanOutIndependence ==
    (Completed /\ \E f \in Selected : tasks[f].ext = "raised") =>
        /\ combined.count = 1
        /\ \A k \in Selected :
              tasks[k].ext = "ok" =>
                  /\ k \in DOMAIN PerAgent
                  /\ PerAgent[k].status = "success"

\* The breaker a kind's agent was built with
FreshBreaker ==
    CircuitBreaker(CIRCUIT_BREAKER_FAILURE_THRESHOLD,
                   CIRCUIT_BREAKER_RECOVERY_TIMEOUT)

\* Nothing of kind k's agent was touched: no call of analyze, no cache
\* lookup or entry, no external call, and its breaker is as built
Untouched(k) ==
    /\ tasks[k].dispatched = 0
    /\ tasks[k].lookups = 0
    /\ tasks[k].calls = 0
    /\ breakers[k] = FreshBreaker
    /\ \A key \in CacheKeys(_cache) : key[1] # k

\* C11: analyze_frame makes no call to the agent of a kind that is not
\* selected (no cache lookup, no breaker call, no external call) and reports
\* that kind as skipped; every selected kind is dispatched exactly once.
C11_SkippedNotDispatched ==
    Completed =>
        /\ \A k \in AgentKinds \ Selected :
              /\ Untouched(k)
              /\ k \in DOMAIN PerAgent
              /\ PerAgent[k].status = "skipped"
        /\ \A k \in Selected : tasks[k].dispatched = 1

\* The part of C11 that holds: an unselected kind's agent is never called,
\* a selected kind's is called once, and an unselected vision, ocr or
\* detection is reported as skipped.
C11_DispatchOnlySelected ==
    /\ \A k \in AgentKinds :
          (state = NoneDict \/ (tasks[k].done /\ k \notin Selected))
              => Untouched(k)
    /\ \A k \in AgentKinds :
          (state # NoneDict /\ tasks[k].done /\ k \in Selected)
              => tasks[k].dispatched = 1 /\ tasks[k].lookups = 1
    /\ Completed =>
          \A k \in (AgentKinds \ Selected) \ {"geolocation"} :
              PerAgent[k].status = "skipped"

\* The selected agents all ended in error or timeout
AllFailed ==
    \A k \in Selected : tasks[k].write.status \in {"error", "timeout"}

\* C12: the overall status of the report combine_results builds is error
\* when every dispatched agent ended in error or timeout, and success when
\* at least one of them produced a result that is neither.
C12_OverallStatus ==
    (Completed /\ Selected # {}) =>
        report.json.status = IF AllFailed THEN "error" ELSE "success"

\* What holds instead: every report combine_results builds has overall
\* status success.
C12_StatusIsSuccess ==
    Completed => report.json.status = "success"

\* C13: when the wrapped call has not completed within the configured
\* timeout, analyze stops waiting, abandons the call and returns a result
\* whose status is timeout.
C13_TimeoutStatus ==
    (Analyzed /\ acall.hung) => acall.ret.status = "timeout"

\* What holds instead: analyze stops waiting and returns, but what
\* with_timeout raises is timeout_utils.TimeoutError, which analyze's
\* except TimeoutError (the builtin) does not catch: the status is error.
C13_LocalTimeoutIsError ==
    (Analyzed /\ acall.hung) =>
        /\ acall.exc = None
        /\ acall.ret.status = "error"
        /\ acall.ret.error = "timeout_utils.TimeoutError"

\* The analyze call reached the external capability, whose first attempt
\* failed with one of excs
FirstFailed(excs) ==
    /\ Analyzed
    /\ acall.calls >= 1
    /\ acall.permanent \in excs

\* C14: a non-transient failure of the external call is never retried: the
\* external capability is invoked exactly once for that analyze call and
\* the result has status error.
C14_PermanentNotRetried ==
    FirstFailed(NonTransient) =>
        acall.calls = 1 /\ acall.ret.status = "error"

\* What holds instead: an exception that is an instance of none of
\* RETRYABLE_EXCEPTIONS is not retried. AuthenticationError is an APIError,
\* which is one of them, and is retried like a transient failure.
C14_NotRetryableOnce ==
    FirstFailed({e \in NonTransient : ~IsInstance(e, RETRYABLE_EXCEPTIONS)}) =>
        acall.calls = 1 /\ acall.ret.status = "error"

C14_AuthenticationRetried ==
    FirstFailed({"AuthenticationError"}) /\ acall.calls = AGENT_RETRY_MAX_ATTEMPTS

\* The last analyze call returned a result that is not a success
NotSuccess == Analyzed /\ acall.ret.status \in {"error", "timeout"}
LastKey == get_cache_key(acall.image, acall.kind, acall.context)

\* C15: only success results enter the cache: after analyze returned a
\* result with status error or timeout (a breaker-open rejection included)
\* the cache holds no entry for that call's key, and the next identical call
\* is not served from the cache.
C15_OnlySuccessCached ==
    /\ NotSuccess => LastKey \notin CacheKeys(_cache)
    /\ (Analyzed /\ acall.afterFailure) => ~acall.hit

\* The breaker rejected a call, the result is an error and its key is not
\* in the cache.
C15_Witness ==
    /\ NotSuccess
    /\ acall.afterFailure
    /\ ~acall.hit
    /\ acall.calls = 0
    /\ acall.ret.error = "Circuit breaker is open"
    /\ LastKey \notin CacheKeys(_cache)

(***************************************************************************)
(* The cache: expiry and capacity                                          *)
(***************************************************************************)
WasGet == cop # NoneDict /\ cop.op = "get"

\* C16: get_cached_result on a key whose expiry time has passed returns
\* None and removes the entry from _cache and from _cache_ttl; for a key set
\* with ttl T at time t and still in the store, get returns the stored value
\* at every time up to t + T and never after it.
C16_Expiry ==
    WasGet =>
        /\ (cop.present /\ ~cop.live) =>
              /\ cop.ret = NoneDict
              /\ cop.removed = {cop.key}
              /\ cop.key \notin CacheKeys(_cache)
              /\ cop.key \notin DOMAIN _cache_ttl
        /\ cop.live =>
              /\ cop.present
              /\ cop.key \in DOMAIN stored
              /\ cop.ret = stored[cop.key].value
              /\ cop.removed = {}
        /\ ~cop.live => cop.ret = NoneDict

\* A get of a key that was in the store past its expiry time returned None
\* and removed it, while another entry stayed.
C16_Witness ==
    /\ WasGet
    /\ cop.present
    /\ ~cop.live
    /\ cop.ret = NoneDict
    /\ cop.key \notin CacheKeys(_cache)
    /\ _cache # <<>>

\* A get at the expiry time itself returned the stored value
C16_AtExpiry ==
    /\ WasGet
    /\ cop.live
    /\ now = stored[cop.key].at + CACHE_TTL_SECONDS
    /\ cop.ret = stored[cop.key].value

\* C17: whatever sequence of set_cached_result, get_cached_result and
\* clear_cache calls ran, one at a time, the store never holds more than
\* MAX_CACHE_SIZE entries, during a call or after it, and a put of a new key
\* into a full store has removed the least recently used entry before it
\* inserted the new one.
C17_Capacity ==
    /\ Len(_cache) <= MAX_CACHE_SIZE
    /\ DOMAIN _cache_ttl = CacheKeys(_cache)
    /\ cop # NoneDict => cop.peak <= MAX_CACHE_SIZE
    /\ Overflow =>
          /\ cop.lru # cop.key
          /\ cop.lru \notin CacheKeys(_cache)
          /\ cop.peak = cop.preLen

\* A full store took a new key: the least recently used key is gone, the
\* new one is in, and the store is full again.
C17_Witness ==
    /\ Overflow
    /\ cop.peak = MAX_CACHE_SIZE
    /\ Len(_cache) = MAX_CACHE_SIZE
    /\ cop.lru \notin CacheKeys(_cache)
    /\ cop.key \in CacheKeys(_cache)

(***************************************************************************)
(* The breaker each agent calls through                                    *)
(***************************************************************************)
\* The last analyze call came after failure_threshold consecutive failed
\* external calls of kinds, the last of them less than recovery_timeout ago
AfterFailures(kinds) ==
    /\ Analyzed
    /\ acall.kind \in kinds
    /\ ~acall.hit
    /\ acall.tripped

\* C18: every kind's breaker is one instance living across analyze calls:
\* after failure_threshold consecutive failed external calls of a kind, the
\* next analyze call of that kind makes no external call.
C18_BreakerAcrossCalls ==
    AfterFailures(AgentKinds) => acall.calls = 0

\* What holds instead: the agents that build their breaker in __init__ stop
\* calling; OCRAgent, which builds one inside _analyze_with_protection, calls
\* on.
C18_InitBreakerAcrossCalls ==
    AfterFailures(AgentKinds \ {"ocr"}) =>
        /\ acall.calls = 0
        /\ acall.ret.status = "error"
        /\ breakers[acall.kind].state = OPEN

C18_OcrCallsOn == AfterFailures({"ocr"}) /\ acall.calls > 0

(***************************************************************************)
(* SpecThreads: two threads call through one CircuitBreaker instance (the  *)
(* agent's self.breaker, shared by the requests being served and by the    *)
(* worker threads a timeout left running). The class takes no lock, so a   *)
(* step is one statement of call, _on_success or _on_failure; `x += 1` is  *)
(* a read and a write. pc names the line the thread is about to run.       *)
(***************************************************************************)
\* The breaker after k failed calls made one after the other at time t
RECURSIVE failed_times(_, _, _)
failed_times(b, k, t) ==
    IF k = 0 THEN b ELSE failed_times(_on_failure(b, t), k - 1, t)

\* How many calls have failed, one at a time, before the threads start
PriorFailures ==
    {0, CIRCUIT_BREAKER_FAILURE_THRESHOLD - 1, CIRCUIT_BREAKER_FAILURE_THRESHOLD}

InitThreads ==
    /\ now = 0
    /\ \E k \in PriorFailures :
          /\ breaker = failed_times(FreshBreaker, k, 0)
          /\ thist = [NoOutcomes EXCEPT !.fail = k]
    /\ bcall = NoneDict
    /\ hist = [fails |-> 0, succs |-> 0]
    /\ threads = [th \in Threads |-> Idle]
    /\ InitCacheVars
    /\ InitAgentVars
    /\ InitGraphVars

\* The variables no thread step touches
threadFrame == <<now, bcall, hist, cacheVars, cacheHist, agentVars, graphVars>>

Goto(th, pc) == threads' = [threads EXCEPT ![th] = [pc |-> pc, tmp |-> 0]]
At(th, pc) == threads[th].pc = pc

ThreadTick ==
    /\ now < ThreadMaxTime
    /\ now' = now + 1
    /\ UNCHANGED <<breakerVars, cacheVars, cacheHist, agentVars, graphVars>>

\* line 68: `if self.state == CircuitState.OPEN:`
L68_CheckState(th) ==
    /\ At(th, "idle")
    /\ thist.calls < MaxThreadCalls
    /\ Goto(th, IF breaker.state = OPEN THEN "L69" ELSE "L82")
    /\ thist' = [thist EXCEPT
                   !.calls = @ + 1,
                   !.overlapped = @ \/ \E o \in Threads \ {th} : ~At(o, "idle")]
    /\ UNCHANGED <<breaker, threadFrame>>

\* line 69: `if self._should_attempt_recovery():`, else raise
\* CircuitBreakerOpenError
L69_ShouldAttemptRecovery(th) ==
    /\ At(th, "L69")
    /\ Goto(th, IF _should_attempt_recovery(breaker, now) THEN "L70" ELSE "idle")
    /\ UNCHANGED <<breaker, thist, threadFrame>>

\* line 70: `self.state = CircuitState.HALF_OPEN`
L70_SetHalfOpen(th) ==
    /\ At(th, "L70")
    /\ breaker' = [breaker EXCEPT !.state = HALF_OPEN]
    /\ Goto(th, "L71")
    /\ UNCHANGED <<thist, threadFrame>>

\* line 71: `self.success_count = 0`
L71_ResetSuccessCount(th) ==
    /\ At(th, "L71")
    /\ breaker' = [breaker EXCEPT !.success_count = 0]
    /\ Goto(th, "L82")
    /\ UNCHANGED <<thist, threadFrame>>

\* line 82: `result = func(*args, **kwargs)` returns
L82_FuncReturns(th) ==
    /\ At(th, "L82")
    /\ Goto(th, "L97")
    /\ thist' = [thist EXCEPT !.succ = TRUE]
    /\ UNCHANGED <<breaker, threadFrame>>

\* line 82: func raises, `except self.expected_exception`
L82_FuncRaises(th) ==
    /\ At(th, "L82")
    /\ Goto(th, "L111")
    /\ thist' = [thist EXCEPT !.fail = @ + 1]
    /\ UNCHANGED <<breaker, threadFrame>>

\* _on_success, line 97: `self.failure_count = 0`
L97_ClearFailureCount(th) ==
    /\ At(th, "L97")
    /\ breaker' = [breaker EXCEPT !.failure_count = 0]
    /\ Goto(th, "L99")
    /\ UNCHANGED <<thist, threadFrame>>

\* line 99: `if self.state == CircuitState.HALF_OPEN:`
L99_TestHalfOpen(th) ==
    /\ At(th, "L99")
    /\ Goto(th, IF breaker.state = HALF_OPEN THEN "L100" ELSE "L104")
    /\ UNCHANGED <<breaker, thist, threadFrame>>

\* line 100: `self.success_count += 1`, the read
L100_ReadSuccessCount(th) ==
    /\ At(th, "L100")
    /\ threads' = [threads EXCEPT
                     ![th] = [pc |-> "L100w", tmp |-> breaker.success_count]]
    /\ UNCHANGED <<breaker, thist, threadFrame>>

\* line 100: the write
L100_WriteSuccessCount(th) ==
    /\ At(th, "L100w")
    /\ breaker' = [breaker EXCEPT !.success_count = threads[th].tmp + 1]
    /\ Goto(th, "L101")
    /\ UNCHANGED <<thist, threadFrame>>

\* line 101: `if self.success_count >= 2:`
L101_TestSuccessCount(th) ==
    /\ At(th, "L101")
    /\ Goto(th, IF breaker.success_count >= SuccessesToClose
                THEN "L102" ELSE "idle")
    /\ UNCHANGED <<breaker, thist, threadFrame>>

\* line 102: `self.state = CircuitState.CLOSED`
L102_SetClosed(th) ==
    /\ At(th, "L102")
    /\ breaker' = [breaker EXCEPT !.state = CLOSED]
    /\ Goto(th, "idle")
    /\ UNCHANGED <<thist, threadFrame>>

\* line 104: `elif self.state == CircuitState.OPEN:`
L104_TestOpen(th) ==
    /\ At(th, "L104")
    /\ Goto(th, IF breaker.state = OPEN THEN "L106" ELSE "idle")
    /\ UNCHANGED <<breaker, thist, threadFrame>>

\* line 106: `self.state = CircuitState.CLOSED` ("unexpected recovery")
L106_SetClosed(th) ==
    /\ At(th, "L106")
    /\ breaker' = [breaker EXCEPT !.state = CLOSED]
    /\ Goto(th, "idle")
    /\ UNCHANGED <<thist, threadFrame>>

\* _on_failure, line 111: `self.failure_count += 1`, the read
L111_ReadFailureCount(th) ==
    /\ At(th, "L111")
    /\ threads' = [threads EXCEPT
                     ![th] = [pc |-> "L111w", tmp |-> breaker.failure_count]]
    /\ UNCHANGED <<breaker, thist, threadFrame>>

\* line 111: the write
L111_WriteFailureCount(th) ==
    /\ At(th, "L111w")
    /\ breaker' = [breaker EXCEPT !.failure_count = threads[th].tmp + 1]
    /\ Goto(th, "L112")
    /\ UNCHANGED <<thist, threadFrame>>

\* line 112: `self.last_failure_time = time.time()`
L112_SetLastFailureTime(th) ==
    /\ At(th, "L112")
    /\ breaker' = [breaker EXCEPT !.last_failure_time = now]
    /\ Goto(th, "L114")
    /\ UNCHANGED <<thist, threadFrame>>

\* line 114: `if self.state == CircuitState.HALF_OPEN:`
L114_TestHalfOpen(th) ==
    /\ At(th, "L114")
    /\ Goto(th, IF breaker.state = HALF_OPEN THEN "L116" ELSE "L118")
    /\ UNCHANGED <<breaker, thist, threadFrame>>

\* line 116: `self.state = CircuitState.OPEN` (recovery failed)
L116_SetOpen(th) ==
    /\ At(th, "L116")
    /\ breaker' = [breaker EXCEPT !.state = OPEN]
    /\ Goto(th, "idle")
    /\ UNCHANGED <<thist, threadFrame>>

\* line 118: `elif self.failure_count >= self.failure_threshold:`
L118_TestThreshold(th) ==
    /\ At(th, "L118")
    /\ Goto(th, IF breaker.failure_count >= breaker.failure_threshold
                THEN "L119" ELSE "idle")
    /\ UNCHANGED <<breaker, thist, threadFrame>>

\* line 119: `self.state = CircuitState.OPEN`
L119_SetOpen(th) ==
    /\ At(th, "L119")
    /\ breaker' = [breaker EXCEPT !.state = OPEN]
    /\ Goto(th, "idle")
    /\ UNCHANGED <<thist, threadFrame>>

NextThreads ==
    \/ ThreadTick
    \/ \E th \in Threads : L68_CheckState(th)
    \/ \E th \in Threads : L69_ShouldAttemptRecovery(th)
    \/ \E th \in Threads : L70_SetHalfOpen(th)
    \/ \E th \in Threads : L71_ResetSuccessCount(th)
    \/ \E th \in Threads : L82_FuncReturns(th)
    \/ \E th \in Threads : L82_FuncRaises(th)
    \/ \E th \in Threads : L97_ClearFailureCount(th)
    \/ \E th \in Threads : L99_TestHalfOpen(th)
    \/ \E th \in Threads : L100_ReadSuccessCount(th)
    \/ \E th \in Threads : L100_WriteSuccessCount(th)
    \/ \E th \in Threads : L101_TestSuccessCount(th)
    \/ \E th \in Threads : L102_SetClosed(th)
    \/ \E th \in Threads : L104_TestOpen(th)
    \/ \E th \in Threads : L106_SetClosed(th)
    \/ \E th \in Threads : L111_ReadFailureCount(th)
    \/ \E th \in Threads : L111_WriteFailureCount(th)
    \/ \E th \in Threads : L112_SetLastFailureTime(th)
    \/ \E th \in Threads : L114_TestHalfOpen(th)
    \/ \E th \in Threads : L116_SetOpen(th)
    \/ \E th \in Threads : L118_TestThreshold(th)
    \/ \E th \in Threads : L119_SetOpen(th)

SpecThreads == InitThreads /\ [][NextThreads]_vars

(***************************************************************************)
(* The breaker under concurrent calls                                      *)
(***************************************************************************)
\* The breaker leaves OPEN in this step
LeavesOpen == breaker.state = OPEN /\ breaker'.state # OPEN
RecoveryDue == _should_attempt_recovery(breaker, now)

\* C19: however concurrent calls on one breaker interleave, calls admitted
\* before it opened and completing afterwards included, a call attempt that
\* finds it OPEN before recovery_timeout has passed since the last recorded
\* failure is rejected without reaching func, and the state does not leave
\* OPEN before that time.
C19_OpenUntilRecovery ==
    [][/\ LeavesOpen => RecoveryDue
       /\ \A th \in Threads :
             (At(th, "L69") /\ ~RecoveryDue /\ threads'[th] # threads[th])
                => threads'[th].pc = "idle"]_vars

\* What holds instead: a call attempt that finds the breaker OPEN too early
\* is rejected, and calls that do not overlap never take the breaker out of
\* OPEN too early. Overlapping calls do: a call admitted before the breaker
\* opened that succeeds afterwards closes it at line 106 of _on_success.
C19_LeavesEarlyOnlyWhenOverlapped ==
    [][/\ (LeavesOpen /\ ~RecoveryDue) => thist.overlapped
       /\ \A th \in Threads :
             (At(th, "L69") /\ ~RecoveryDue /\ threads'[th] # threads[th])
                => threads'[th].pc = "idle"]_vars

\* A call admitted before the breaker opened has succeeded and is about to
\* close it, before recovery_timeout has passed
C19_LateSuccessCloses ==
    /\ breaker.state = OPEN
    /\ ~RecoveryDue
    /\ \E th \in Threads : At(th, "L106")

\* No thread is inside call
Quiescent == \A th \in Threads : At(th, "idle")
\* Every call so far has failed or been rejected
OnlyFailures == ~thist.succ

\* C20: transitions and counter updates are atomic with respect to
\* concurrent calls on one breaker: once k calls have failed with no success
\* among them, failure_count has increased by exactly k, and the state is the
\* one these failures give in any sequential order: OPEN exactly from
\* failure_threshold failures on.
C20_AtomicUpdates ==
    (Quiescent /\ OnlyFailures) =>
        /\ breaker.failure_count = thist.fail
        /\ breaker.state = OPEN <=>
              thist.fail >= CIRCUIT_BREAKER_FAILURE_THRESHOLD

\* What holds instead: calls that do not overlap update the breaker as
\* claimed, and overlapping failures never add more than one each.
C20_AtomicWhenSequential ==
    (Quiescent /\ OnlyFailures) =>
        /\ breaker.failure_count <= thist.fail
        /\ ~thist.overlapped =>
              /\ breaker.failure_count = thist.fail
              /\ breaker.state = OPEN <=>
                    thist.fail >= CIRCUIT_BREAKER_FAILURE_THRESHOLD

\* Two calls failed at once and one increment was lost
C20_LostUpdate ==
    /\ Quiescent
    /\ OnlyFailures
    /\ thist.overlapped
    /\ breaker.failure_count < thist.fail

(***************************************************************************)
(* SpecCacheThreads: two threads (agent calls in flight) use the module's  *)
(* _cache and _cache_ttl. cache_utils takes no lock, so a step is one      *)
(* statement of get_cached_result or set_cached_result; pc names the line  *)
(* the thread is about to run (G: get, S: set).                            *)
(***************************************************************************)
\* Distinct payloads, one more than the store holds
ThreadKeys ==
    {get_cache_key(<<i>>, "vision", "") : i \in 1 .. MAX_CACHE_SIZE + 1}
ThreadValue == _analyze_internal("vision", [ok |-> TRUE, text |-> "street"]).value

\* The store after set_cached_result was called for payloads 1 .. k, one
\* call after the other, at time t
RECURSIVE filled(_, _)
filled(k, t) ==
    IF k = 0 THEN clear_cache
    ELSE set_cached_result(filled(k - 1, t).cache, filled(k - 1, t).ttl,
                           get_cache_key(<<k>>, "vision", ""), ThreadValue, t,
                           CACHE_TTL_SECONDS)

InitCacheThreads ==
    /\ now = 0
    /\ InitBreakerVars
    /\ \E k \in {0, MAX_CACHE_SIZE - 1, MAX_CACHE_SIZE} :
          /\ _cache = filled(k, 0).cache
          /\ _cache_ttl = filled(k, 0).ttl
    /\ cop = NoneDict
    /\ recency = <<>>
    /\ stored = <<>>
    /\ cthreads = [th \in Threads |-> CIdle]
    /\ chist = NoCacheCalls
    /\ InitAgentVars
    /\ InitGraphVars

\* The variables no cache statement touches
cacheFrame == <<now, cop, recency, stored, breakerVars, agentVars, graphVars>>

CAt(th, pc) == cthreads[th].pc = pc
CKey(th) == cthreads[th].key
CGoto(th, pc) == cthreads' = [cthreads EXCEPT ![th].pc = pc]
\* The call returns
CReturn(th) ==
    /\ cthreads' = [cthreads EXCEPT ![th] = CIdle]
    /\ chist' = chist
\* The statement raises exc, which leaves the call
CRaise(th, exc) ==
    /\ cthreads' = [cthreads EXCEPT ![th] = CIdle]
    /\ chist' = [chist EXCEPT !.raised = exc]
\* What entering a call does to the history
Entered(th) ==
    [chist EXCEPT
       !.calls = @ + 1,
       !.overlapped = @ \/ \E o \in Threads \ {th} : ~CAt(o, "idle")]

CacheThreadTick ==
    /\ now < CACHE_TTL_SECONDS + 1
    /\ now' = now + 1
    /\ UNCHANGED <<breakerVars, cacheVars, cacheHist, agentVars, graphVars>>

\* An agent call enters get_cached_result(cache_key)
CallGet(th, key) ==
    /\ CAt(th, "idle")
    /\ chist.calls < MaxCacheCalls
    /\ cthreads' = [cthreads EXCEPT ![th] = [pc |-> "G72", key |-> key, tmp |-> <<>>]]
    /\ chist' = Entered(th)
    /\ UNCHANGED <<cacheVars, cacheFrame>>

\* An agent call enters set_cached_result(cache_key, result)
CallSet(th, key) ==
    /\ CAt(th, "idle")
    /\ chist.calls < MaxCacheCalls
    /\ cthreads' = [cthreads EXCEPT ![th] = [pc |-> "S103", key |-> key, tmp |-> <<>>]]
    /\ chist' = Entered(th)
    /\ UNCHANGED <<cacheVars, cacheFrame>>

\* line 72: `if cache_key not in _cache: return None`
G72_TestInCache(th) ==
    /\ CAt(th, "G72")
    /\ IF CKey(th) \notin CacheKeys(_cache)
       THEN CReturn(th)
       ELSE CGoto(th, "G76") /\ chist' = chist
    /\ UNCHANGED <<cacheVars, cacheFrame>>

\* line 76: `if cache_key in _cache_ttl:`
G76_TestInTtl(th) ==
    /\ CAt(th, "G76")
    /\ CGoto(th, IF CKey(th) \in DOMAIN _cache_ttl THEN "G77" ELSE "G85")
    /\ UNCHANGED <<chist, cacheVars, cacheFrame>>

\* line 77: `if time.time() > _cache_ttl[cache_key]:`
G77_TestExpired(th) ==
    /\ CAt(th, "G77")
    /\ IF CKey(th) \notin DOMAIN _cache_ttl
       THEN CRaise(th, "KeyError")
       ELSE /\ CGoto(th, IF now > _cache_ttl[CKey(th)] THEN "G79" ELSE "G85")
            /\ chist' = chist
    /\ UNCHANGED <<cacheVars, cacheFrame>>

\* line 79: `del _cache[cache_key]`
G79_DelCache(th) ==
    /\ CAt(th, "G79")
    /\ IF CKey(th) \notin CacheKeys(_cache)
       THEN CRaise(th, "KeyError") /\ _cache' = _cache
       ELSE /\ _cache' = CacheDel(_cache, CKey(th))
            /\ CGoto(th, "G80")
            /\ chist' = chist
    /\ UNCHANGED <<_cache_ttl, cacheFrame>>

\* line 80: `del _cache_ttl[cache_key]`, then `return None`
G80_DelTtl(th) ==
    /\ CAt(th, "G80")
    /\ IF CKey(th) \notin DOMAIN _cache_ttl
       THEN CRaise(th, "KeyError") /\ _cache_ttl' = _cache_ttl
       ELSE /\ _cache_ttl' = DictDel(_cache_ttl, CKey(th))
            /\ CReturn(th)
    /\ UNCHANGED <<_cache, cacheFrame>>

\* line 85: `_cache.move_to_end(cache_key)`
G85_MoveToEnd(th) ==
    /\ CAt(th, "G85")
    /\ IF CKey(th) \notin CacheKeys(_cache)
       THEN CRaise(th, "KeyError") /\ _cache' = _cache
       ELSE /\ _cache' = move_to_end(_cache, CKey(th))
            /\ CGoto(th, "G88")
            /\ chist' = chist
    /\ UNCHANGED <<_cache_ttl, cacheFrame>>

\* line 88: `return _cache[cache_key].copy()`
G88_Return(th) ==
    /\ CAt(th, "G88")
    /\ IF CKey(th) \notin CacheKeys(_cache)
       THEN CRaise(th, "KeyError")
       ELSE CReturn(th)
    /\ UNCHANGED <<cacheVars, cacheFrame>>

\* line 103: `if len(_cache) >= MAX_CACHE_SIZE:`
S103_TestFull(th) ==
    /\ CAt(th, "S103")
    /\ CGoto(th, IF Len(_cache) >= MAX_CACHE_SIZE THEN "S105" ELSE "S113")
    /\ UNCHANGED <<chist, cacheVars, cacheFrame>>

\* line 105: `oldest_key = next(iter(_cache))`
S105_OldestKey(th) ==
    /\ CAt(th, "S105")
    /\ IF _cache = <<>>
       THEN CRaise(th, "StopIteration")
       ELSE /\ cthreads' = [cthreads EXCEPT ![th].pc = "S106",
                                            ![th].tmp = _cache[1].k]
            /\ chist' = chist
    /\ UNCHANGED <<cacheVars, cacheFrame>>

\* line 106: `del _cache[oldest_key]`
S106_DelOldest(th) ==
    /\ CAt(th, "S106")
    /\ IF cthreads[th].tmp \notin CacheKeys(_cache)
       THEN CRaise(th, "KeyError") /\ _cache' = _cache
       ELSE /\ _cache' = CacheDel(_cache, cthreads[th].tmp)
            /\ CGoto(th, "S107")
            /\ chist' = chist
    /\ UNCHANGED <<_cache_ttl, cacheFrame>>

\* line 107: `if oldest_key in _cache_ttl:`
S107_TestOldestInTtl(th) ==
    /\ CAt(th, "S107")
    /\ CGoto(th, IF cthreads[th].tmp \in DOMAIN _cache_ttl THEN "S108" ELSE "S113")
    /\ UNCHANGED <<chist, cacheVars, cacheFrame>>

\* line 108: `del _cache_ttl[oldest_key]`
S108_DelOldestTtl(th) ==
    /\ CAt(th, "S108")
    /\ IF cthreads[th].tmp \notin DOMAIN _cache_ttl
       THEN CRaise(th, "KeyError") /\ _cache_ttl' = _cache_ttl
       ELSE /\ _cache_ttl' = DictDel(_cache_ttl, cthreads[th].tmp)
            /\ CGoto(th, "S113")
            /\ chist' = chist
    /\ UNCHANGED <<_cache, cacheFrame>>

\* line 113: `_cache[cache_key] = result.copy()`
S113_StoreValue(th) ==
    /\ CAt(th, "S113")
    /\ _cache' = CacheSet(_cache, CKey(th), ThreadValue)
    /\ CGoto(th, "S114")
    /\ UNCHANGED <<chist, _cache_ttl, cacheFrame>>

\* line 114: `_cache_ttl[cache_key] = time.time() + ttl_seconds`
S114_StoreExpiry(th) ==
    /\ CAt(th, "S114")
    /\ _cache_ttl' = DictSet(_cache_ttl, CKey(th), now + CACHE_TTL_SECONDS)
    /\ CGoto(th, "S117")
    /\ UNCHANGED <<chist, _cache, cacheFrame>>

\* line 117: `_cache.move_to_end(cache_key)`
S117_MoveToEnd(th) ==
    /\ CAt(th, "S117")
    /\ IF CKey(th) \notin CacheKeys(_cache)
       THEN CRaise(th, "KeyError") /\ _cache' = _cache
       ELSE /\ _cache' = move_to_end(_cache, CKey(th))
            /\ CReturn(th)
    /\ UNCHANGED <<_cache_ttl, cacheFrame>>

NextCacheThreads ==
    \/ CacheThreadTick
    \/ \E th \in Threads, key \in ThreadKeys : CallGet(th, key)
    \/ \E th \in Threads, key \in ThreadKeys : CallSet(th, key)
    \/ \E th \in Threads : G72_TestInCache(th)
    \/ \E th \in Threads : G76_TestInTtl(th)
    \/ \E th \in Threads : G77_TestExpired(th)
    \/ \E th \in Threads : G79_DelCache(th)
    \/ \E th \in Threads : G80_DelTtl(th)
    \/ \E th \in Threads : G85_MoveToEnd(th)
    \/ \E th \in Threads : G88_Return(th)
    \/ \E th \in Threads : S103_TestFull(th)
    \/ \E th \in Threads : S105_OldestKey(th)
    \/ \E th \in Threads : S106_DelOldest(th)
    \/ \E th \in Threads : S107_TestOldestInTtl(th)
    \/ \E th \in Threads : S108_DelOldestTtl(th)
    \/ \E th \in Threads : S113_StoreValue(th)
    \/ \E th \in Threads : S114_StoreExpiry(th)
    \/ \E th \in Threads : S117_MoveToEnd(th)

SpecCacheThreads == InitCacheThreads /\ [][NextCacheThreads]_vars

(***************************************************************************)
(* The cache under concurrent calls                                        *)
(***************************************************************************)
\* A get that found its key in _cache is about to look it up in _cache_ttl,
\* and the two maps disagree about the key
ObservesTorn(th) ==
    /\ CAt(th, "G76")
    /\ CKey(th) \in CacheKeys(_cache)
    /\ CKey(th) \notin DOMAIN _cache_ttl

\* C21: get_cached_result and set_cached_result are safe when several agent
\* calls use them at once, on the same key or on different keys: however the
\* calls interleave, neither raises, the store never holds more than
\* MAX_CACHE_SIZE entries, and no caller sees a key that is in one of
\* _cache and _cache_ttl and not in the other.
C21_ConcurrentCacheSafe ==
    /\ chist.raised = None
    /\ Len(_cache) <= MAX_CACHE_SIZE
    /\ \A th \in Threads : ~ObservesTorn(th)

\* What holds instead: calls that do not overlap neither raise, nor overfill
\* the store, nor see the maps disagree.
C21_SafeWhenSequential ==
    ~chist.overlapped => C21_ConcurrentCacheSafe

\* A get and an evicting set overlapped and the get raised KeyError
C21_GetRaised == chist.overlapped /\ chist.raised = "KeyError"
\* Two sets overlapped and the store holds more than MAX_CACHE_SIZE entries
C21_Overfull == chist.overlapped /\ Len(_cache) > MAX_CACHE_SIZE
C21_TornSeen == \E th \in Threads : ObservesTorn(th)

(***************************************************************************)
(* analyze_frame and the payload it is given                               *)
(***************************************************************************)
\* The payload of the running analyze_frame call cannot be decoded, or is
\* longer than the routes allow
FailsValidation ==
    /\ state # NoneDict
    /\ \/ verify_image_size(state.image_base64) = NoneDict
       \/ image_data(state.image_base64) \in OversizedData

\* C22: when the payload given to analyze_frame cannot be decoded or exceeds
\* the maximum size, the task fails fast: no agent is dispatched, the
\* external capability is called zero times, and the report's status is
\* error.
C22_FailFast ==
    FailsValidation =>
        /\ \A k \in AgentKinds :
              tasks[k].dispatched = 0 /\ tasks[k].calls = 0
        /\ phase = "returned" => report.json.status = "error"

\* What holds instead: analyze_frame checks nothing, and every selected
\* agent is dispatched once whatever the payload is.
C22_DispatchedWhateverThePayload ==
    (FailsValidation /\ phase \in {"combine", "end", "raised", "returned"}) =>
        \A k \in state.agents_to_run : tasks[k].dispatched = 1

\* An undecodable payload was analysed, the external capability was called
\* for it, and the report says success
C22_UndecodableAnalysed ==
    /\ FailsValidation
    /\ verify_image_size(state.image_base64) = NoneDict
    /\ phase = "returned"
    /\ \E k \in AgentKinds : tasks[k].calls > 0
    /\ report.json.status = "success"

(***************************************************************************)
(* agents/coordinator/multi_frame_handler.py, geolocation_combiner.py,     *)
(* multi_frame_reporter.py: analyze_multi_frame. A context, a snippet and  *)
(* a summary are the parts their f-strings and joins are made of.          *)
(***************************************************************************)
\* multi_frame_handler.py:139 geo_clues[-10:]; :143 and :147 [-5:]
GEO_CLUES_KEPT == 10
SNIPPETS_KEPT == 5
\* multi_frame_handler.py:172 and :179 len(analysis) > 10; :173 analysis[:200];
\* :180 analysis[:150]
MIN_ANALYSIS_LEN == 10
OCR_SNIPPET_LEN == 200
DETECTION_SNIPPET_LEN == 150
\* geolocation_combiner.py:58 len(all_clues) > 5
MEDIUM_CLUES == 5
\* multi_frame_reporter.py:92 combined_clues[:10]
SUMMARY_CLUES == 10

\* len(s) of the texts the reports carry
ShortText == "SALIDA"
LongText == "a street with shop signs in Spanish ..."
len(text) ==
    CASE text = ShortText -> 6
      [] text = LongText -> 350
      [] text = "" -> 0
      [] OTHER -> 20

\* text[:n], as the text sliced and how much of it is left
slice_to(text, n) == [of |-> text, chars |-> Min(len(text), n)]

\* Variant: s[:k]
first_k(s, k) == IF Len(s) <= k THEN s ELSE SubSeq(s, 1, k)

\* s[-k:]
last_k(s, k) == IF Len(s) <= k THEN s ELSE SubSeq(s, Len(s) - k + 1, Len(s))

\* Variant: accumulated clues go into every context once enabled
accumulates_from_first(enable_context, idx) == enable_context

\* multi_frame_handler.py:134 `if enable_context and idx > 0`
accumulates(enable_context, idx) == enable_context /\ idx > 0

\* MultiFrameHandler._build_frame_context (idx counts from 0). A section
\* that is left out is the empty sequence: one that is put in has an entry.
_build_frame_context(idx, total_frames, description, enable_context, geo_clues, ocr_texts, detections) ==
    LET base == [position |-> idx + 1, total |-> total_frames,
                 description |-> description] IN
    IF accumulates(enable_context, idx)
    THEN [base |-> base, accumulated |-> TRUE,
          geo |-> last_k(geo_clues, GEO_CLUES_KEPT),
          ocr |-> last_k(ocr_texts, SNIPPETS_KEPT),
          detections |-> last_k(detections, SNIPPETS_KEPT)]
    ELSE [base |-> base, accumulated |-> FALSE,
          geo |-> <<>>, ocr |-> <<>>, detections |-> <<>>]

\* result.get("json", {}).get("agents", {})
report_agents(result) ==
    DictGet(DictGet(result, "json", EmptyDict), "agents", EmptyDict)

\* `if d.get(key)` for a list or a dict
Truthy(d, key) == key \in DOMAIN d /\ DOMAIN d[key] # {}

\* Variant: the text-extraction excerpt is taken whatever has_text says
_extract_clues_from_result_any_text(result, idx, geo_clues, ocr_texts, detections) ==
    LET agents == report_agents(result)
        geo == DictGet(agents, "geolocation", EmptyDict)
        ocr == DictGet(agents, "ocr", EmptyDict)
        detection == DictGet(agents, "detection", EmptyDict)
        ocr_analysis == DictGet(ocr, "analysis", "")
        detection_analysis == DictGet(detection, "analysis", "") IN
    [geo_clues |-> IF Truthy(geo, "key_clues")
                   THEN geo_clues \o geo.key_clues ELSE geo_clues,
     ocr_texts |->
        IF /\ DictGet(ocr, "status", None) = "success"
           /\ len(ocr_analysis) > MIN_ANALYSIS_LEN
        THEN Append(ocr_texts,
                    [frame |-> idx + 1,
                     text |-> slice_to(ocr_analysis, OCR_SNIPPET_LEN)])
        ELSE ocr_texts,
     detections |->
        IF /\ DictGet(detection, "status", None) = "success"
           /\ len(detection_analysis) > MIN_ANALYSIS_LEN
        THEN Append(detections,
                    [frame |-> idx + 1,
                     text |-> slice_to(detection_analysis,
                                       DETECTION_SNIPPET_LEN)])
        ELSE detections]

\* MultiFrameHandler._extract_clues_from_result: the three accumulators
\* after it
_extract_clues_from_result(result, idx, geo_clues, ocr_texts, detections) ==
    LET agents == report_agents(result)
        geo == DictGet(agents, "geolocation", EmptyDict)
        ocr == DictGet(agents, "ocr", EmptyDict)
        detection == DictGet(agents, "detection", EmptyDict)
        ocr_analysis == DictGet(ocr, "analysis", "")
        detection_analysis == DictGet(detection, "analysis", "") IN
    [geo_clues |-> IF Truthy(geo, "key_clues")
                   THEN geo_clues \o geo.key_clues ELSE geo_clues,
     ocr_texts |->
        IF /\ DictGet(ocr, "status", None) = "success"
           /\ DictGet(ocr, "has_text", FALSE)
           /\ len(ocr_analysis) > MIN_ANALYSIS_LEN
        THEN Append(ocr_texts,
                    [frame |-> idx + 1,
                     text |-> slice_to(ocr_analysis, OCR_SNIPPET_LEN)])
        ELSE ocr_texts,
     detections |->
        IF /\ DictGet(detection, "status", None) = "success"
           /\ len(detection_analysis) > MIN_ANALYSIS_LEN
        THEN Append(detections,
                    [frame |-> idx + 1,
                     text |-> slice_to(detection_analysis,
                                       DETECTION_SNIPPET_LEN)])
        ELSE detections]

\* Variant: the first frame has index 0
frame_entry_from_zero(idx, description, result) ==
    [frame_index |-> idx, description |-> description, result |-> result]

\* multi_frame_handler.py:84-90
frame_entry(idx, description, result) ==
    [frame_index |-> idx + 1, description |-> description, result |-> result]

RECURSIVE all_clues_of(_)
all_clues_of(individual_results) ==
    IF individual_results = <<>> THEN <<>>
    ELSE LET geo == DictGet(report_agents(
                        DictGet(individual_results[Len(individual_results)],
                                "result", EmptyDict)),
                    "geolocation", EmptyDict) IN
         all_clues_of(SubSeq(individual_results, 1,
                             Len(individual_results) - 1))
         \o (IF Truthy(geo, "key_clues") THEN geo.key_clues ELSE <<>>)

RECURSIVE all_locations_of(_)
all_locations_of(individual_results) ==
    IF individual_results = <<>> THEN <<>>
    ELSE LET geo == DictGet(report_agents(
                        DictGet(individual_results[Len(individual_results)],
                                "result", EmptyDict)),
                    "geolocation", EmptyDict) IN
         all_locations_of(SubSeq(individual_results, 1,
                                 Len(individual_results) - 1))
         \o (IF Truthy(geo, "location") THEN <<geo.location>> ELSE <<>>)

\* Variant: five clues are enough for MEDIUM
confidence_label_from_five(all_clues) ==
    IF Len(all_clues) >= MEDIUM_CLUES THEN "MEDIUM" ELSE "LOW"

\* geolocation_combiner.py:58
confidence_label(all_clues) ==
    IF Len(all_clues) > MEDIUM_CLUES THEN "MEDIUM" ELSE "LOW"

\* GeolocationCombiner.combine_results, which
\* MultiFrameHandler._combine_geolocation_results returns
_combine_geolocation_results(individual_results) ==
    LET all_clues == all_clues_of(individual_results)
        all_locations == all_locations_of(individual_results) IN
    IF all_locations # <<>>
    THEN [combined_clues |-> all_clues,
          most_likely_location |-> all_locations[1],
          all_detected_locations |-> all_locations,
          total_clues_found |-> Len(all_clues),
          confidence |-> confidence_label(all_clues)]
    ELSE [combined_clues |-> all_clues,
          most_likely_location |-> NoneDict,
          total_clues_found |-> Len(all_clues),
          confidence |-> "VERY LOW",
          note |-> "No se pudo determinar ubicacion con certeza"]

\* MultiFrameReporter.generate_summary
_generate_multi_frame_summary(individual_results, combined_geolocation) ==
    [total |-> Len(individual_results),
     total_clues |-> DictGet(combined_geolocation, "total_clues_found", 0),
     location |->
        IF combined_geolocation.most_likely_location # NoneDict
        THEN [country |-> DictGet(combined_geolocation.most_likely_location,
                                  "country", "N/A"),
              city |-> DictGet(combined_geolocation.most_likely_location,
                               "city", "N/A")]
        ELSE NoneDict,
     confidence |-> DictGet(combined_geolocation, "confidence", "UNKNOWN"),
     clues |-> first_k(combined_geolocation.combined_clues, SUMMARY_CLUES),
     frames |-> [i \in 1 .. Len(individual_results) |->
                    [frame_index |-> individual_results[i].frame_index,
                     description |-> individual_results[i].description,
                     agents |-> DOMAIN report_agents(
                                    individual_results[i].result)
                                \cap {"vision", "ocr", "detection"}]]]

\* Variant: analyze_frame lets the exception out
analyze_frame_raises(exc) == [ok |-> FALSE, exc |-> exc]

\* coordinator.py:98-103: analyze_frame's except clause makes a report of
\* the exception graph.invoke raised
analyze_frame_failed(exc) ==
    [ok |-> TRUE,
     value |-> [json |-> [status |-> "error", error |-> exc],
                text |-> [error |-> exc]]]

\* What the single-frame analyzer gives for the frame at idx. failed: its
\* graph raised. plain: the report of combine_results, which has no
\* geolocation entry. located and clue: a report whose agents map has the
\* geolocation entry _extract_clues_from_result and GeolocationCombiner
\* read (key_clues: at most five a frame, response_parser.py:152).
ReportKinds == {"failed", "plain", "located", "clue"}

frame_report(kind, idx, t) ==
    CASE kind = "failed" -> analyze_frame_failed("TypeError")
      [] kind = "plain" ->
           [ok |-> TRUE,
            value |->
              [json |-> FinalReport(t, "success",
                          AgentResults(
                            VisionResult([status |-> "success",
                                          analysis |-> LongText]),
                            OCRResult([status |-> "success",
                                       analysis |-> "no se detecto texto",
                                       has_text |-> FALSE]),
                            SkippedResult("detection"), NoneDict)),
               text |-> [report |-> "plain"]]]
      [] kind = "located" ->
           [ok |-> TRUE,
            value |->
              [json |->
                 [timestamp |-> t, status |-> "success",
                  agents |->
                    [vision |-> [status |-> "success", analysis |-> LongText],
                     ocr |-> [status |-> "success", has_text |-> TRUE,
                              analysis |-> LongText],
                     detection |-> [status |-> "success",
                                    analysis |-> LongText],
                     geolocation |->
                       [status |-> "success", analysis |-> LongText,
                        key_clues |-> [j \in 1 .. 4 |-> <<idx + 1, j>>],
                        location |-> [country |-> "ES", city |-> idx + 1],
                        confidence |-> "alto"]]],
               text |-> [report |-> "located"]]]
      [] kind = "clue" ->
           [ok |-> TRUE,
            value |->
              [json |->
                 [timestamp |-> t, status |-> "success",
                  agents |->
                    [vision |-> [status |-> "success", analysis |-> LongText],
                     ocr |-> [status |-> "success", has_text |-> TRUE,
                              analysis |-> ShortText],
                     detection |-> [status |-> "error",
                                    analysis |-> LongText],
                     geolocation |->
                       [status |-> "success", analysis |-> LongText,
                        key_clues |-> <<<<idx + 1, 1>>>>,
                        location |-> EmptyDict,
                        confidence |-> "unknown"]]],
               text |-> [report |-> "clue"]]]

\* The frames of a request: every second one comes without a description
Frames(n) ==
    [i \in 1 .. n |->
        IF i % 2 = 1
        THEN [frame |-> <<"data:image/png;base64", i>>, description |-> "cam"]
        ELSE [frame |-> <<"data:image/png;base64", i>>]]

InitMulti ==
    /\ now = 0
    /\ InitBreakerVars
    /\ InitCacheVars
    /\ InitAgentVars
    /\ InitGraphVars

multiFrame ==
    <<now, breakerVars, cacheVars, cacheHist, agentVars, phase, state, tasks,
      combined, report>>

\* multi_frame_handler.py:41-50
AnalyzeMultiFrame(n, enable_context_accumulation) ==
    /\ mf = MfIdle
    /\ mf' = [pc |-> "loop",
              frames |-> Frames(n),
              enable |-> enable_context_accumulation,
              idx |-> 0,
              individual_results |-> <<>>,
              geo_clues |-> <<>>, ocr_texts |-> <<>>, detections |-> <<>>,
              calls |-> <<>>,
              ret |-> NoneDict]
    /\ UNCHANGED multiFrame

\* multi_frame_handler.py:52-90, one turn of the loop; when the analyzer
\* raises, the except clause of lines 113-119
AnalyzeNextFrame(kind) ==
    /\ mf.pc = "loop"
    /\ mf.idx < Len(mf.frames)
    /\ LET idx == mf.idx
           frame_data == mf.frames[idx + 1]
           frame_base64 == DictGet(frame_data, "frame", "")
           description == DictGet(frame_data, "description",
                                  [frame |-> idx + 1])
           context == _build_frame_context(idx, Len(mf.frames), description,
                          mf.enable, mf.geo_clues, mf.ocr_texts,
                          mf.detections)
           r == frame_report(kind, idx, now)
           analysed == [frame |-> frame_base64, context |-> context,
                        appended |-> Len(mf.individual_results),
                        seen |-> Len(mf.geo_clues),
                        failed |-> kind = "failed"] IN
       IF ~r.ok
       THEN mf' = [mf EXCEPT
                     !.pc = "returned",
                     !.calls = Append(@, analysed),
                     !.ret = [error |-> r.exc,
                              individual_results |-> mf.individual_results,
                              total_frames |-> Len(mf.frames)]]
       ELSE \E acc \in {IF mf.enable
                        THEN _extract_clues_from_result(r.value, idx,
                                 mf.geo_clues, mf.ocr_texts, mf.detections)
                        ELSE [geo_clues |-> mf.geo_clues,
                              ocr_texts |-> mf.ocr_texts,
                              detections |-> mf.detections]} :
               mf' = [mf EXCEPT
                        !.idx = idx + 1,
                        !.calls = Append(@, analysed),
                        !.geo_clues = acc.geo_clues,
                        !.ocr_texts = acc.ocr_texts,
                        !.detections = acc.detections,
                        !.individual_results =
                            Append(@, frame_entry(idx, description, r.value))]
    /\ UNCHANGED multiFrame

\* multi_frame_handler.py:92-111
ReturnMultiFrame ==
    /\ mf.pc = "loop"
    /\ mf.idx = Len(mf.frames)
    /\ \E combined_geolocation \in
             {_combine_geolocation_results(mf.individual_results)} :
          mf' = [mf EXCEPT
                   !.pc = "returned",
                   !.ret =
                      [individual_results |-> mf.individual_results,
                       combined_geolocation |-> combined_geolocation,
                       summary |-> _generate_multi_frame_summary(
                                       mf.individual_results,
                                       combined_geolocation),
                       total_frames |-> Len(mf.frames),
                       context_accumulation_enabled |-> mf.enable]]
    /\ UNCHANGED multiFrame

NextMulti ==
    \/ \E n \in 0 .. MaxFrames, enable \in BOOLEAN : AnalyzeMultiFrame(n, enable)
    \/ \E kind \in ReportKinds : AnalyzeNextFrame(kind)
    \/ ReturnMultiFrame

SpecMulti == InitMulti /\ [][NextMulti]_vars

(***************************************************************************)
(* Properties of analyze_multi_frame                                       *)
(***************************************************************************)
MfCalled == mf # MfIdle
MfReturned == MfCalled /\ mf.pc = "returned"
\* The geolocation entry of the report of input j (counted from 1)
GeoOf(j) ==
    DictGet(report_agents(mf.individual_results[j].result), "geolocation",
            EmptyDict)
CluesOf(j) == IF Truthy(GeoOf(j), "key_clues") THEN GeoOf(j).key_clues ELSE <<>>
Range(f) == {f[x] : x \in DOMAIN f}
\* How many of the entries of an accumulator come from inputs before j
Before(acc, j, Frame(_)) == Cardinality({i \in DOMAIN acc : Frame(acc[i]) < j})
ClueFrame(clue) == clue[1]
SnippetFrame(snippet) == snippet.frame
\* The last `keep` of the first n entries of an accumulator
Window(acc, n, keep) == SubSeq(acc, n - Min(keep, n) + 1, n)

\* C23: analyze_multi_frame takes its inputs one at a time in the caller's
\* order: the analysis of an input starts when the reports of all inputs
\* before it have been obtained, their findings added to the accumulators
\* and their entries appended; individual_results has one entry per input,
\* in the caller's order, with frame_index = position + 1, and total_frames
\* is the number of inputs.
C23_OneAtATimeInOrder ==
    MfCalled =>
        /\ Len(mf.calls) = Len(mf.individual_results)
        /\ \A j \in 1 .. Len(mf.calls) :
              /\ mf.calls[j].frame = mf.frames[j].frame
              /\ mf.calls[j].context.base.position = j
              /\ mf.calls[j].appended = j - 1
              /\ mf.enable =>
                    mf.calls[j].seen = Before(mf.geo_clues, j, ClueFrame)
              /\ mf.individual_results[j].frame_index = j
        /\ MfReturned =>
              /\ mf.ret.individual_results = mf.individual_results
              /\ Len(mf.ret.individual_results) = Len(mf.frames)
              /\ mf.ret.total_frames = Len(mf.frames)

C23_Witness ==
    /\ MfReturned
    /\ Len(mf.frames) >= 3
    /\ mf.enable
    /\ mf.calls[3].seen > mf.calls[2].seen
    /\ mf.calls[2].seen > 0

\* C24: with accumulation enabled, the context of an input after the first
\* holds the last min(10, n) of the n location clues gathered from the
\* inputs before it, in the order they were gathered, the last min(5, m) of
\* the m text snippets and the last min(5, k) of the k object snippets, and
\* nothing older.
C24_ContextWindows ==
    (MfCalled /\ mf.enable) =>
        \A j \in 2 .. Len(mf.calls) :
            /\ mf.calls[j].context.geo =
                  Window(mf.geo_clues, Before(mf.geo_clues, j, ClueFrame), 10)
            /\ mf.calls[j].context.ocr =
                  Window(mf.ocr_texts, Before(mf.ocr_texts, j, SnippetFrame), 5)
            /\ mf.calls[j].context.detections =
                  Window(mf.detections,
                         Before(mf.detections, j, SnippetFrame), 5)

\* Twelve clues over three inputs leave the ten most recent for the fourth,
\* and a later input has more than five snippets of each kind behind it
C24_Witness ==
    /\ MfCalled
    /\ mf.enable
    /\ Len(mf.calls) >= 7
    /\ mf.calls[4].seen = 12
    /\ Len(mf.calls[4].context.geo) = 10
    /\ mf.calls[4].context.geo[1] = mf.geo_clues[3]
    /\ Before(mf.ocr_texts, 7, SnippetFrame) > 5
    /\ Before(mf.detections, 7, SnippetFrame) > 5
    /\ Len(mf.calls[7].context.ocr) = 5
    /\ Len(mf.calls[7].context.detections) = 5

\* C25: the context of the first input, and of every input when
\* accumulation is disabled, is the base context alone (position label and
\* description), whatever the earlier reports were.
C25_BaseContextOnly ==
    MfCalled =>
        \A j \in 1 .. Len(mf.calls) :
            (j = 1 \/ ~mf.enable) =>
                mf.calls[j].context =
                    [base |-> [position |-> j, total |-> Len(mf.frames),
                               description |->
                                   DictGet(mf.frames[j], "description",
                                           [frame |-> j])],
                     accumulated |-> FALSE,
                     geo |-> <<>>, ocr |-> <<>>, detections |-> <<>>]

C25_Witness ==
    /\ MfCalled
    /\ ~mf.enable
    /\ Len(mf.calls) >= 3
    /\ CluesOf(1) # <<>>
    /\ CluesOf(2) # <<>>
    /\ mf.calls[3].context.accumulated = FALSE

\* C26: combine_results gives combined_clues = every input's location clues
\* joined in input order, total_clues_found = their number,
\* most_likely_location = the first non-empty location in input order (None
\* when there is none), and confidence VERY LOW without a location, else
\* MEDIUM for more than 5 clues and LOW for 5 or fewer.
C26_CombinedGeolocation ==
    (MfReturned /\ "combined_geolocation" \in DOMAIN mf.ret) =>
        LET cg == mf.ret.combined_geolocation
            n == Len(mf.individual_results)
            located == {j \in 1 .. n : Truthy(GeoOf(j), "location")} IN
        /\ Range(cg.combined_clues) = UNION {Range(CluesOf(j)) : j \in 1 .. n}
        /\ \A a, b \in DOMAIN cg.combined_clues :
              a < b =>
                 \/ cg.combined_clues[a][1] < cg.combined_clues[b][1]
                 \/ /\ cg.combined_clues[a][1] = cg.combined_clues[b][1]
                    /\ cg.combined_clues[a][2] < cg.combined_clues[b][2]
        /\ cg.total_clues_found = Len(cg.combined_clues)
        /\ IF located = {}
           THEN /\ cg.most_likely_location = NoneDict
                /\ cg.confidence = "VERY LOW"
           ELSE /\ cg.most_likely_location =
                      GeoOf(CHOOSE j \in located :
                                \A i \in located : j <= i).location
                /\ cg.confidence =
                      IF cg.total_clues_found > 5 THEN "MEDIUM" ELSE "LOW"

\* Five clues and a location that the second input gave: LOW
C26_Witness ==
    /\ MfReturned
    /\ "combined_geolocation" \in DOMAIN mf.ret
    /\ mf.ret.combined_geolocation.total_clues_found = 5
    /\ mf.ret.combined_geolocation.confidence = "LOW"
    /\ CluesOf(1) # <<>>
    /\ mf.ret.combined_geolocation.most_likely_location.city = 2

SectionOrder == <<"vision", "ocr", "detection", "geolocation">>
\* analyze_frame returned the report combine_results built
Reported == phase = "returned" /\ "agents" \in DOMAIN report.json
\* What the agent node of a kind wrote to the state
Written(kind) == state[ResultKey(kind)]
Skipped(kind) == kind \notin state.agents_to_run
\* A section renders its agent as the claim says
RendersAsStated(section) ==
    LET kind == section.kind IN
    IF Skipped(kind) THEN section.body.line \in {"omitted", "not run"}
    ELSE IF Written(kind).status = "success"
    THEN section.body = Line("analysis", Written(kind).analysis)
    ELSE section.body = Line("error", Written(kind).error)

\* C28: format_text_report has one titled section per agent kind, in the
\* order vision, OCR, detection, geolocation; a section shows the analysis
\* text when its agent succeeded, a skipped marker when it was skipped, and
\* the error detail when it failed.
C28_TextSections ==
    Reported =>
        /\ Len(report.text) = Len(SectionOrder)
        /\ \A i \in DOMAIN report.text :
              /\ report.text[i].kind = SectionOrder[i]
              /\ RendersAsStated(report.text[i])

\* What holds instead: the order is fixed and the sections of the agents
\* that ran are as stated; of the agents that were skipped only
\* geolocation has a marker, and the others are shown as failed.
C28_SkippedShownAsFailed ==
    Reported =>
        /\ Len(report.text) = Len(SectionOrder)
        /\ \A i \in DOMAIN report.text :
              /\ report.text[i].kind = SectionOrder[i]
              /\ IF Skipped(SectionOrder[i])
                 THEN report.text[i].body.line =
                         IF SectionOrder[i] = "geolocation" THEN "not run"
                         ELSE "error"
                 ELSE RendersAsStated(report.text[i])

\* OCR was skipped and its section reads as an error
C28_SkippedOcrAsError ==
    /\ Reported
    /\ Skipped("ocr")
    /\ ~Skipped("vision")
    /\ report.text[2].body = Line("error", "OCR extraction failed")
    /\ report.text[1].body.line = "analysis"

(***************************************************************************)
(* Properties of the breaker inside the retry loop and the timeout         *)
(***************************************************************************)
\* The first analyze call of the vision agent (whose breaker lives across
\* calls) made every retry attempt, and the external call failed on each
AllAttemptsFailed ==
    /\ Analyzed
    /\ ncalls = 1
    /\ acall.kind = "vision"
    /\ ~acall.hung
    /\ acall.calls = AGENT_RETRY_MAX_ATTEMPTS
    /\ acall.ret.status = "error"

\* C29: the breaker wraps the retry loop, so a failed analyze call is
\* reported to it once: a call whose external call fails on every retry
\* attempt raises the consecutive-failure count by exactly one, and it takes
\* failure_threshold failed analyze calls, not attempts, to open the
\* breaker.
C29_OneFailurePerCall ==
    /\ AllAttemptsFailed =>
          /\ breakers["vision"].failure_count = 1
          /\ breakers["vision"].state =
                IF CIRCUIT_BREAKER_FAILURE_THRESHOLD = 1 THEN OPEN ELSE CLOSED
    /\ (Analyzed /\ abandoned = NoneDict /\ breakers["vision"].state = OPEN) =>
          ncalls >= CIRCUIT_BREAKER_FAILURE_THRESHOLD

\* What holds instead: the retry loop wraps the breaker, and every failed
\* attempt is reported: the count is the number of attempts.
C29_OneFailurePerAttempt ==
    AllAttemptsFailed =>
        /\ breakers["vision"].failure_count = AGENT_RETRY_MAX_ATTEMPTS
        /\ breakers["vision"].state = OPEN
              <=> AGENT_RETRY_MAX_ATTEMPTS >= CIRCUIT_BREAKER_FAILURE_THRESHOLD

\* One failed analyze call on a new agent and its breaker is open
C29_OpenAfterOneCall ==
    /\ AllAttemptsFailed
    /\ breakers["vision"].state = OPEN
    /\ CIRCUIT_BREAKER_FAILURE_THRESHOLD > 1

\* The first analyze call of the vision agent has just returned because the
\* local timeout expired on its first attempt; the worker is still in it
TimedOutJustNow ==
    /\ Analyzed
    /\ ncalls = 1
    /\ acall.kind = "vision"
    /\ acall.hung
    /\ abandoned # NoneDict
    /\ abandoned.attempt = 1

\* C30: an analyze call that ends because the local timeout expired is
\* reported to the breaker as a failure: when the call returns its timeout
\* result, the breaker's consecutive-failure count has been increased by it,
\* or the breaker has been opened.
C30_TimeoutReported ==
    TimedOutJustNow =>
        \/ breakers["vision"].failure_count >= 1
        \/ breakers["vision"].state = OPEN

\* What holds instead: the timeout is raised outside breaker.call, in the
\* waiting thread, and the breaker is as it was before the call.
C30_TimeoutNotReported ==
    TimedOutJustNow =>
        /\ breakers["vision"] = CircuitBreaker(CIRCUIT_BREAKER_FAILURE_THRESHOLD,
                                               CIRCUIT_BREAKER_RECOVERY_TIMEOUT)
        /\ acall.ret.status = "error"

C30_TimedOutUnreported ==
    /\ TimedOutJustNow
    /\ breakers["vision"].failure_count = 0
    /\ breakers["vision"].state = CLOSED
    /\ now > 0

(***************************************************************************)
(* SpecCall: analyze of one image, one call at a time, on agents whose     *)
(* breaker and cache earlier calls have left in a state they can leave     *)
(* them in; _analyze_with_protection is tracked by metrics_utils           *)
(* (METRICS_ENABLED, True by default)                                      *)
(***************************************************************************)
\* track_agent_metrics.wrapper: the status it derives from what the wrapped
\* function gave, a result or an exception. TimeoutError is the builtin;
\* metrics_utils does not import timeout_utils.TimeoutError.
metrics_status(p) ==
    IF p.exc # None
    THEN IF IsInstance(p.exc, {"TimeoutError"}) THEN "timeout" ELSE "error"
    ELSE IF "status" \in DOMAIN p.ret /\ p.ret.status = "error" THEN "error"
    ELSE IF "status" \in DOMAIN p.ret /\ p.ret.status = "timeout" THEN "timeout"
    ELSE "success"

\* The finally block: total_calls, then the counter of the status
record_call(stats, status) ==
    [total_calls |-> stats.total_calls + 1,
     success_count |-> stats.success_count + (IF status = "success" THEN 1 ELSE 0),
     error_count |-> stats.error_count + (IF status = "error" THEN 1 ELSE 0),
     timeout_count |-> stats.timeout_count + (IF status = "timeout" THEN 1 ELSE 0)]

\* Variant: the counters are updated after the call instead of in a finally
\* block, so a call that raises is not counted
track_agent_metrics_no_finally(stats, agent_name, p) ==
    IF p.exc # None THEN stats
    ELSE [stats EXCEPT ![agent_name] = record_call(@, metrics_status(p))]

\* @track_agent_metrics(agent_name) around a call that gave p
track_agent_metrics(stats, agent_name, p) ==
    [stats EXCEPT ![agent_name] = record_call(@, metrics_status(p))]

\* Variant: the worker stores what it obtained
target_stores(c, ttl, cache_key, f, t) ==
    IF f.ok
    THEN set_cached_result(c, ttl, cache_key, f.value, t, CACHE_TTL_SECONDS)
    ELSE [cache |-> c, ttl |-> ttl]

\* with_timeout's target, run by the worker thread: what it does to the
\* cache once the function it runs gave f. The result or the exception goes
\* to a queue; the store is in analyze, on the thread that called.
target(c, ttl, cache_key, f, t) == [cache |-> c, ttl |-> ttl]

CallImage == <<"data:image/png;base64", "AAA">>
CallKey(kind) == get_cache_key(CallImage, kind, "")

\* What an earlier successful call of the vision agent stored
EarlierResult == _analyze_internal("vision", [ok |-> TRUE, text |-> "plaza"]).value

\* The vision breaker after the earlier calls: k consecutive failures at
\* time 0 (none, one short of the threshold, the threshold), or (the last
\* case) the first successful trial of a recovery
EarlierCalls ==
    {0, CIRCUIT_BREAKER_FAILURE_THRESHOLD - 1, CIRCUIT_BREAKER_FAILURE_THRESHOLD,
     CIRCUIT_BREAKER_FAILURE_THRESHOLD + 1}
earlier_breaker(k) ==
    IF k <= CIRCUIT_BREAKER_FAILURE_THRESHOLD
    THEN failed_times(FreshBreaker, k, 0)
    ELSE _on_success(call_admit(
             failed_times(FreshBreaker, CIRCUIT_BREAKER_FAILURE_THRESHOLD, 0),
             CIRCUIT_BREAKER_RECOVERY_TIMEOUT).b)
earlier_time(k) ==
    IF k <= CIRCUIT_BREAKER_FAILURE_THRESHOLD THEN 0
    ELSE CIRCUIT_BREAKER_RECOVERY_TIMEOUT

\* What the external capability does on the attempts of a call: it answers,
\* raises a retried exception (rate limit, timeout), raises one that is not
\* retried, or does not return
CallBehaviours ==
    {[ok |-> TRUE, text |-> "street"], ExtHang}
    \cup [ok : {FALSE}, exc : {"RateLimitError", "TimeoutError", "ValueError"}]
CallSeqs == {exts \in ExtSeqs : \A i \in DOMAIN exts : exts[i] \in CallBehaviours}
CallLateSeqs == {exts \in LateSeqs : exts[1] \in CallBehaviours}

InitCall ==
    /\ InitBreakerVars
    /\ InitGraphVars
    /\ cop = NoneDict /\ recency = <<>> /\ stored = <<>>
    /\ cthreads = [th \in Threads |-> CIdle] /\ chist = NoCacheCalls
    /\ abandoned = NoneDict /\ acall = NoneDict /\ aprev = NoneDict
    /\ streak = [k \in AgentKinds |-> NoStreak]
    /\ ncalls = 0
    /\ _agent_stats = [k \in AgentKinds |-> NoStats]
    /\ \E k \in EarlierCalls, held \in BOOLEAN :
          /\ now = earlier_time(k)
          /\ breakers = [a \in AgentKinds |->
                            IF a = "vision" THEN earlier_breaker(k)
                            ELSE FreshBreaker]
          /\ \E st \in {IF held
                        THEN set_cached_result(<<>>, <<>>, CallKey("vision"),
                                 EarlierResult, now, CACHE_TTL_SECONDS)
                        ELSE [cache |-> <<>>, ttl |-> <<>>]} :
                /\ _cache = st.cache
                /\ _cache_ttl = st.ttl

CallTick ==
    /\ now < AgentMaxTime
    /\ now' = now + 1
    /\ UNCHANGED <<breakerVars, cacheVars, cacheHist, agentVars, graphVars>>

\* A worker thread that a timed-out call left behind is still running
WorkerRunning == abandoned # NoneDict /\ abandoned.attempt > 0

\* The first attempt at which the external capability gives a usable answer
first_ok(kind, exts) ==
    IF \E i \in DOMAIN exts : ~Hangs(exts[i]) /\ _analyze_internal(kind, exts[i]).ok
    THEN CHOOSE i \in DOMAIN exts :
            /\ ~Hangs(exts[i]) /\ _analyze_internal(kind, exts[i]).ok
            /\ \A j \in 1 .. i - 1 :
                  Hangs(exts[j]) \/ ~_analyze_internal(kind, exts[j]).ok
    ELSE 0

\* The calls of one run are made on one agent
CallAnalyze(kind, exts) ==
    /\ ncalls < MaxCalls
    /\ acall # NoneDict => acall.kind = kind
    /\ ncalls' = ncalls + 1
    /\ \E cached \in {get_cached_result(_cache, _cache_ttl, CallKey(kind), now)} :
       \E r \in {analyze_lookup(kind, CallKey(kind), cached, exts,
                                breakers[kind], now)} :
       \E stats \in {IF cached.ret # NoneDict THEN _agent_stats
                     ELSE track_agent_metrics(_agent_stats, kind,
                              _analyze_with_protection(kind, breakers[kind],
                                                       now, exts))} :
       /\ r.hung => ~WorkerRunning
       /\ _cache' = r.cache
       /\ _cache_ttl' = r.ttl
       /\ breakers' = [breakers EXCEPT ![kind] = r.b]
       /\ _agent_stats' = stats
       /\ abandoned' = IF r.hung
                       THEN [kind |-> kind, attempt |-> r.attempt, late |-> "none",
                             at |-> NoTime]
                       ELSE abandoned
       /\ acall' = [kind |-> kind, at |-> now, ret |-> r.ret, calls |-> r.calls,
                    hit |-> r.hit, hung |-> r.hung,
                    pre |-> breakers[kind].state,
                    same |-> r.b = breakers[kind],
                    held |-> IF CallKey(kind) \in CacheKeys(_cache)
                             THEN CacheGet(_cache, CallKey(kind)) ELSE NoneDict,
                    expires |-> IF CallKey(kind) \in DOMAIN _cache_ttl
                                THEN _cache_ttl[CallKey(kind)] ELSE NoTime,
                    allFail |-> \A i \in DOMAIN exts : Retried(exts[i]),
                    lastExc |-> IF Retried(exts[AGENT_RETRY_MAX_ATTEMPTS])
                                THEN exts[AGENT_RETRY_MAX_ATTEMPTS].exc ELSE None,
                    firstOk |-> first_ok(kind, exts),
                    counted |-> stats[kind].total_calls
                                  - _agent_stats[kind].total_calls]
    /\ UNCHANGED <<now, breakerVars, cacheHist, aprev, streak, graphVars>>

\* The worker of a timed-out call completes: its external call returns or
\* raises, and the retry loop and the breaker's call go on from there
CallLateReturn(exts) ==
    /\ WorkerRunning
    /\ \E r \in {late_return(abandoned.kind, breakers[abandoned.kind], now,
                             exts, abandoned.attempt)} :
       \E f \in {_analyze_internal(abandoned.kind, exts[r.attempt])} :
       \E st \in {target(_cache, _cache_ttl, CallKey(abandoned.kind), f, now)} :
          /\ breakers' = [breakers EXCEPT ![abandoned.kind] = r.b]
          /\ _cache' = st.cache
          /\ _cache_ttl' = st.ttl
          /\ abandoned' = [kind |-> abandoned.kind, attempt |-> 0,
                           late |-> IF f.ok THEN "returned" ELSE "raised",
                           at |-> now]
    /\ UNCHANGED <<now, breakerVars, cacheHist, acall, aprev, ncalls, streak,
                   _agent_stats, graphVars>>

NextCall ==
    \/ CallTick
    \/ \E kind \in AgentSpecKinds, exts \in CallSeqs : CallAnalyze(kind, exts)
    \/ \E exts \in CallLateSeqs : CallLateReturn(exts)

SpecCall == InitCall /\ [][NextCall]_vars

(***************************************************************************)
(* The retry loop of one call                                              *)
(***************************************************************************)
CallDone == acall # NoneDict
\* The call ended because the breaker turned an attempt away
BreakerIntervened ==
    /\ "error" \in DOMAIN acall.ret
    /\ acall.ret.error = "Circuit breaker is open"
\* Every attempt failed with an exception the loop retries, and the call was
\* neither served from the cache, nor stopped by the breaker, nor timed out
Exhausted ==
    /\ CallDone /\ acall.allFail
    /\ ~acall.hit /\ ~acall.hung /\ ~BreakerIntervened
\* The external capability was invoked as the claim says: never more than
\* AGENT_RETRY_MAX_ATTEMPTS times, exactly that often when the attempts are
\* exhausted, and not again after the first attempt that succeeded
AttemptsAsClaimed ==
    CallDone =>
       /\ acall.calls <= AGENT_RETRY_MAX_ATTEMPTS
       /\ Exhausted => acall.calls = AGENT_RETRY_MAX_ATTEMPTS
       /\ (acall.firstOk > 0 /\ ~acall.hit /\ ~BreakerIntervened) =>
             /\ acall.calls = acall.firstOk
             /\ acall.ret.status = "success"

C31_WitnessSuccess ==
    /\ CallDone /\ acall.firstOk = 2 /\ acall.calls = 2
    /\ acall.ret.status = "success"

(***************************************************************************)
(* The worker a timed-out call left behind                                 *)
(***************************************************************************)
\* The tracking fields of a breaker, as opposed to its configuration
Configuration(b) ==
    [failure_threshold |-> b.failure_threshold,
     recovery_timeout |-> b.recovery_timeout]
\* The worker's function has returned or raised
WorkerEnded == abandoned # NoneDict /\ abandoned.attempt = 0

\* C32: when the worker of a call that the timeout abandoned completes, the
\* cache is left as it is (no entry is created, none is overwritten or
\* re-dated), and so are the metrics, the other agents' breakers and the
\* configuration of its own breaker: only the tracking fields of that
\* breaker may change.
C32_LateResultNotStored ==
    [][(WorkerRunning /\ abandoned'.attempt = 0) =>
          /\ UNCHANGED <<_cache, _cache_ttl, _agent_stats, now>>
          /\ \A k \in AgentKinds \ {abandoned.kind} : breakers'[k] = breakers[k]
          /\ Configuration(breakers'[abandoned.kind])
                = Configuration(breakers[abandoned.kind])]_vars

\* The worker returned a result after another call had stored one for the
\* same key at an earlier time: the entry still expires when that call's
\* entry does, and the breaker has heard of the late success
C32_Witness ==
    /\ WorkerEnded /\ abandoned.late = "returned"
    /\ CallDone /\ acall.kind = abandoned.kind
    /\ ~acall.hit /\ acall.ret.status = "success"
    /\ acall.at < abandoned.at
    /\ CallKey(acall.kind) \in CacheKeys(_cache)
    /\ _cache_ttl[CallKey(acall.kind)] = acall.at + CACHE_TTL_SECONDS
\* The worker returned a result and the cache has no entry
C32_WitnessNoEntry ==
    /\ WorkerEnded /\ abandoned.late = "returned"
    /\ _cache = <<>>

(***************************************************************************)
(* A call served from the cache                                            *)
(***************************************************************************)
\* When the call was made the cache held an entry for its key that had not
\* expired
HeldFresh == CallDone /\ acall.held # NoneDict /\ acall.at <= acall.expires

\* C33: a call made while the cache holds an unexpired entry for its key is
\* a hit whatever the state of the breaker, Open included; a hit returns the
\* entry, makes no external call, leaves no worker behind and leaves the
\* breaker (state and counters) as it was.
C33_HitBypassesBreaker ==
    /\ HeldFresh => acall.hit
    /\ (CallDone /\ acall.hit) =>
          /\ acall.ret = acall.held
          /\ acall.calls = 0
          /\ ~acall.hung
          /\ acall.same

\* A hit while the breaker of that agent was Open with failures counted,
\* which it still is
C33_Witness ==
    /\ CallDone /\ acall.hit /\ acall.pre = OPEN
    /\ acall.ret = EarlierResult
    /\ breakers[acall.kind].state = OPEN
    /\ breakers[acall.kind].failure_count = CIRCUIT_BREAKER_FAILURE_THRESHOLD

(***************************************************************************)
(* metrics_utils: the counters of the tracked calls                        *)
(***************************************************************************)
\* C38: for each agent, total_calls = success_count + error_count +
\* timeout_count after any sequence of calls made one at a time; a call that
\* reached the tracked function, whether it returned or raised, added
\* exactly one to total_calls, and a call served from the cache added none.
C38_CountersAddUp ==
    /\ \A k \in AgentKinds :
          _agent_stats[k].total_calls =
             _agent_stats[k].success_count + _agent_stats[k].error_count
                + _agent_stats[k].timeout_count
    /\ CallDone => acall.counted = (IF acall.hit THEN 0 ELSE 1)
    /\ \A k \in AgentKinds : _agent_stats[k].total_calls <= ncalls

\* Two calls were tracked, the last of which raised (it timed out), and one
\* of them is counted as a success
C38_Witness ==
    /\ CallDone /\ acall.hung /\ acall.counted = 1
    /\ _agent_stats[acall.kind].total_calls = 2
    /\ _agent_stats[acall.kind].success_count = 1
    /\ _agent_stats[acall.kind].error_count = 1
\* A call served from the cache after a tracked one: one call counted of two
C38_WitnessHit ==
    /\ CallDone /\ acall.hit /\ ncalls = 2
    /\ _agent_stats[acall.kind].total_calls = 1

(***************************************************************************)
(* What one input adds to the accumulated clues                            *)
(***************************************************************************)
\* The entry of agent a in a report, empty when the report has none
AgentEntry(result, a) ==
    IF "json" \in DOMAIN result /\ "agents" \in DOMAIN result.json
       /\ a \in DOMAIN result.json.agents
    THEN result.json.agents[a] ELSE EmptyDict
StatusOf(d) == IF "status" \in DOMAIN d THEN d.status ELSE None
TextOf(d) == IF "analysis" \in DOMAIN d THEN d.analysis ELSE ""
\* The first n characters of a text
Excerpt(d, frame, n) ==
    [frame |-> frame,
     text |-> [of |-> TextOf(d),
               chars |-> IF len(TextOf(d)) < n THEN len(TextOf(d)) ELSE n]]
\* The location clues of a report
CluesIn(result) ==
    IF "key_clues" \in DOMAIN AgentEntry(result, "geolocation")
    THEN AgentEntry(result, "geolocation").key_clues ELSE <<>>
\* The lists after a turn of the loop that obtained report `result` for
\* input number `frame`, as the claim has them
ListsAfter(result, frame, geo, ocr, det) ==
    /\ mf'.geo_clues = geo \o CluesIn(result)
    /\ mf'.ocr_texts =
          IF /\ StatusOf(AgentEntry(result, "ocr")) = "success"
             /\ "has_text" \in DOMAIN AgentEntry(result, "ocr")
             /\ AgentEntry(result, "ocr").has_text
             /\ len(TextOf(AgentEntry(result, "ocr"))) > 10
          THEN Append(ocr, Excerpt(AgentEntry(result, "ocr"), frame, 200))
          ELSE ocr
    /\ mf'.detections =
          IF /\ StatusOf(AgentEntry(result, "detection")) = "success"
             /\ len(TextOf(AgentEntry(result, "detection"))) > 10
          THEN Append(det, Excerpt(AgentEntry(result, "detection"), frame, 150))
          ELSE det
    /\ result.json.status = "error" =>
          /\ mf'.geo_clues = geo
          /\ mf'.ocr_texts = ocr
          /\ mf'.detections = det

\* C34: with accumulation enabled, the turn of the loop that obtains the
\* report of input i leaves the lists, before input i+1 is taken, as
\* follows: the clue list has all the report's location clues appended; the
\* text list has one excerpt appended (first 200 characters) only if the
\* text-extraction entry has status success, has_text true and a text longer
\* than 10 characters; the object list one excerpt (first 150 characters)
\* only if the object entry has status success and a text longer than 10
\* characters; otherwise, and for a report of error status, they are
\* unchanged.
C34_AccumulationStep ==
    [][(MfCalled /\ mf.pc = "loop" /\ mf'.pc = "loop"
          /\ mf'.idx = mf.idx + 1 /\ mf.enable) =>
          ListsAfter(mf'.individual_results[mf'.idx].result, mf'.idx,
                     mf.geo_clues, mf.ocr_texts, mf.detections)]_vars

\* After the first input, whose report has four clues and long texts: four
\* clues, one text excerpt of 200 characters, one object excerpt of 150
C34_Witness ==
    /\ MfCalled /\ mf.enable /\ mf.pc = "loop" /\ mf.idx = 1
    /\ Len(mf.geo_clues) = 4
    /\ Len(mf.ocr_texts) = 1 /\ mf.ocr_texts[1].text.chars = 200
    /\ Len(mf.detections) = 1 /\ mf.detections[1].text.chars = 150
    /\ mf.ocr_texts[1].frame = 1
\* After a second input whose report has error status: nothing was added
C34_WitnessFailed ==
    /\ MfCalled /\ mf.enable /\ mf.pc = "loop" /\ mf.idx = 2
    /\ mf.individual_results[2].result.json.status = "error"
    /\ Len(mf.geo_clues) = 4 /\ Len(mf.ocr_texts) = 1
    /\ Len(mf.detections) = 1

(***************************************************************************)
(* set_cached_result on a key that is already stored                       *)
(***************************************************************************)
LastSet == cop # NoneDict /\ cop.op = "set"

\* C35 as stated: set_cached_result removes an entry only when the key is
\* new and the store is at MAX_CACHE_SIZE; when the key is already present
\* no other key goes and the number of entries stays what it was.
C35_EvictsOnlyOnOverflow ==
    LastSet =>
       /\ cop.removed # {} => (~cop.present /\ cop.preLen >= MAX_CACHE_SIZE)
       /\ cop.present => (cop.removed = {} /\ Len(_cache) = cop.preLen)

\* C35, what the code does: the test is on the size alone. A set on a full
\* store removes the least recently used entry first, also when its own key
\* is present; unless that entry is the key's own, another key is lost and
\* the store ends one entry short.
C35_OverwriteEvictsWhenFull ==
    LastSet =>
       /\ cop.removed # {} <=>
             (cop.preLen >= MAX_CACHE_SIZE /\ cop.lru # cop.key)
       /\ (cop.present /\ cop.preLen >= MAX_CACHE_SIZE /\ cop.lru # cop.key) =>
             /\ cop.removed = {cop.lru}
             /\ Len(_cache) = cop.preLen - 1
       /\ (cop.present /\ cop.preLen < MAX_CACHE_SIZE) =>
             (cop.removed = {} /\ Len(_cache) = cop.preLen)

\* A full store, a set on one of its keys: the other key is gone
C35_Witness ==
    /\ LastSet /\ cop.present /\ cop.preLen = MAX_CACHE_SIZE
    /\ cop.removed = {cop.lru} /\ cop.lru # cop.key
    /\ Len(_cache) = MAX_CACHE_SIZE - 1
    /\ cop.key \in CacheKeys(_cache)

(***************************************************************************)
(* The breaker's counters, calls made one at a time                        *)
(***************************************************************************)
\* C36: in every state reached by calls made one at a time, a Closed
\* breaker has failure_count < failure_threshold, and right after a call
\* whose function returned failure_count is 0: the counter counts the
\* failures since the last success.
C36_ConsecutiveFailuresCounted ==
    /\ breaker.state = CLOSED =>
          breaker.failure_count < breaker.failure_threshold
    /\ Succeeded => breaker.failure_count = 0
    /\ (Failed /\ bcall.pre.state = CLOSED) =>
          breaker.failure_count = hist.fails

\* A success after failures had been counted: the counter is back at 0
C36_Witness ==
    /\ Succeeded
    /\ bcall.pre.state = CLOSED
    /\ bcall.pre.failure_count = bcall.pre.failure_threshold - 1
    /\ breaker.state = CLOSED
    /\ breaker.failure_count = 0

\* C37: an attempt turned away while the breaker is Open leaves state,
\* failure_count, success_count and last_failure_time as they were, so the
\* time from which the recovery trial is admitted stays
\* last_failure_time + recovery_timeout however many attempts are rejected.
C37_RejectionLeavesBreaker ==
    (Called /\ ~bcall.invoked) =>
        /\ Rejectable
        /\ breaker = bcall.pre
        /\ \A t \in bcall.at .. MaxTime :
              call_admit(breaker, t).admitted
                 <=> t >= bcall.pre.last_failure_time + bcall.pre.recovery_timeout

\* An attempt rejected some time after the failure that opened the breaker
C37_Witness ==
    /\ Called /\ ~bcall.invoked /\ Rejectable
    /\ bcall.at > bcall.pre.last_failure_time
    /\ breaker.state = OPEN
    /\ breaker.last_failure_time = bcall.pre.last_failure_time

====
